---------------------------- MODULE Spec2Model ----------------------------
(***************************************************************************)
(* A model of the File-Finder scanning pipeline (package internal):        *)
(*   - the pattern engine        (matcher.go: LoadPatterns, Match, Desc)   *)
(*   - the content scanner       (reader.go:  matchReader)                 *)
(*   - the scan controller       (stats.go:   FileScanner.Scan)            *)
(* Text is modelled as sequences of one-character strings; a line of a     *)
(* file is such a sequence without its terminating newline.                *)
(***************************************************************************)
EXTENDS Integers, Sequences, FiniteSets, TLC

(***************************************************************************)
(* Bounds of the model.                                                    *)
(***************************************************************************)
\* longest file content, in lines, of the matchReader specification
MaxLines == 3
\* most walk entries (files, unreadable files, walk errors) of a scan
MaxEntries == 2
\* most configured roots of a scan
MaxRoots == 2
\* largest configured worker count (opts.Threads)
MaxThreads == 2

(***************************************************************************)
(* Program constants, scaled down.                                         *)
(***************************************************************************)
\* bufio.NewReaderSize(tee, 64*1024): the read buffer, counted in lines
BufLines == 2
\* make(chan Task, 2048): the capacity of the task queue
QueueCap == 1

(***************************************************************************)
(* Strings.                                                                *)
(***************************************************************************)
UpperCase == <<"A","B","C","D","E","F","G","H","I","J","K","L","M",
               "N","O","P","Q","R","S","T","U","V","W","X","Y","Z">>
LowerCase == <<"a","b","c","d","e","f","g","h","i","j","k","l","m",
               "n","o","p","q","r","s","t","u","v","w","x","y","z">>
Digits == {"0","1","2","3","4","5","6","7","8","9"}

ToLowerChar(c) ==
    IF \E i \in 1..26 : UpperCase[i] = c
    THEN LowerCase[CHOOSE i \in 1..26 : UpperCase[i] = c]
    ELSE c

\* strings.ToLower
ToLower(s) == [i \in 1..Len(s) |-> ToLowerChar(s[i])]

\* strings.Contains
Contains(s, sub) ==
    \E i \in 1..(Len(s) + 1) :
        /\ i + Len(sub) - 1 <= Len(s)
        /\ SubSeq(s, i, i + Len(sub) - 1) = sub

\* strings.HasPrefix
HasPrefix(s, p) == Len(p) <= Len(s) /\ SubSeq(s, 1, Len(p)) = p

\* s[n:] of Go, n counted in characters
Drop(s, n) == SubSeq(s, n + 1, Len(s))

RECURSIVE TrimLeft(_)
TrimLeft(s) == IF s # <<>> /\ Head(s) = " " THEN TrimLeft(Tail(s)) ELSE s

RECURSIVE TrimRight(_)
TrimRight(s) ==
    IF s # <<>> /\ s[Len(s)] = " " THEN TrimRight(SubSeq(s, 1, Len(s) - 1)) ELSE s

\* strings.TrimSpace
TrimSpace(s) == TrimRight(TrimLeft(s))

(***************************************************************************)
(* Regular expressions: the fragment  atom ::= char | \d ,  item ::= atom  *)
(* | atom+ , regex ::= item* .  The source is a sequence of tokens: a      *)
(* character, the two-character token "\\d", the postfix "+", or "[",      *)
(* which (no "]" being in the alphabet) opens a class that is never closed.*)
(***************************************************************************)
ClassOf(tok) == IF tok = "\\d" THEN Digits ELSE {tok}

\* regexp.Compile: the items of the expression, or the error
RECURSIVE CompileFrom(_, _)
CompileFrom(src, items) ==
    IF src = <<>> THEN [ok |-> TRUE, items |-> items]
    ELSE LET tok == Head(src) IN
         IF tok = "["
         THEN [ok |-> FALSE, items |-> <<>>]   \* missing closing ]
         ELSE IF tok = "+"
         THEN IF items = <<>> \/ items[Len(items)].plus
              THEN [ok |-> FALSE, items |-> <<>>]  \* missing argument / nested repetition
              ELSE CompileFrom(Tail(src),
                      [items EXCEPT ![Len(items)].plus = TRUE])
         ELSE CompileFrom(Tail(src),
                 Append(items, [class |-> ClassOf(tok), plus |-> FALSE]))

Compile(src) == CompileFrom(src, <<>>)

\* whether items[k..] match a prefix of s[i..]
RECURSIVE MatchFrom(_, _, _, _)
MatchFrom(items, k, s, i) ==
    IF k > Len(items) THEN TRUE
    ELSE IF items[k].plus
    THEN \E j \in 1..(Len(s) - i + 1) :
            /\ \A m \in i..(i + j - 1) : s[m] \in items[k].class
            /\ MatchFrom(items, k + 1, s, i + j)
    ELSE /\ i <= Len(s)
         /\ s[i] \in items[k].class
         /\ MatchFrom(items, k + 1, s, i + 1)

\* (*regexp.Regexp).MatchString: the expression matches somewhere in s
MatchString(items, s) == \E i \in 1..(Len(s) + 1) : MatchFrom(items, 1, s, i)

(***************************************************************************)
(* Patterns (matcher.go).                                                  *)
(***************************************************************************)
RePrefix == <<"r","e",":">>
PlainIPrefix == <<"p","l","a","i","n",":","i",":">>

RegexPattern(src, items) ==
    [kind |-> "re", s |-> src, items |-> items, insensitive |-> FALSE]
PlainPattern(s, insensitive) ==
    [kind |-> "plain", s |-> s, items |-> <<>>, insensitive |-> insensitive]

\* Pattern.Match
Match(p, s) ==
    IF p.kind = "re" THEN MatchString(p.items, s)
    ELSE IF p.insensitive THEN Contains(ToLower(s), p.s)
    ELSE Contains(s, p.s)

\* Pattern.Desc
Desc(p) ==
    IF p.kind = "re" THEN p.s
    ELSE IF p.insensitive THEN PlainIPrefix \o p.s
    ELSE p.s

\* LoadPatterns over the lines of the pattern file
RECURSIVE LoadFrom(_, _, _)
LoadFrom(lines, ps, hasInsensitive) ==
    IF lines = <<>>
    THEN [ok |-> TRUE, patterns |-> ps, hasInsensitive |-> hasInsensitive]
    ELSE LET line == TrimSpace(Head(lines)) IN
         IF line = <<>> \/ HasPrefix(line, <<"#">>)
         THEN LoadFrom(Tail(lines), ps, hasInsensitive)
         ELSE IF HasPrefix(line, RePrefix)
         THEN LET re == Compile(Drop(line, 3)) IN
              IF ~re.ok
              THEN [ok |-> FALSE, patterns |-> <<>>, hasInsensitive |-> FALSE]
              ELSE LoadFrom(Tail(lines),
                      Append(ps, RegexPattern(Drop(line, 3), re.items)),
                      hasInsensitive)
         ELSE IF HasPrefix(line, PlainIPrefix)
         THEN LoadFrom(Tail(lines),
                 Append(ps, PlainPattern(ToLower(Drop(line, 8)), TRUE)), TRUE)
         ELSE LoadFrom(Tail(lines), Append(ps, PlainPattern(line, FALSE)),
                 hasInsensitive)

\* LoadPatterns with `ps = append([]Pattern{p}, ps...)` for the append
LoadPatterns_Prepending(file) ==
    IF ~file.exists
    THEN [ok |-> FALSE, patterns |-> <<>>, hasInsensitive |-> FALSE]
    ELSE LET r == LoadFrom(file.lines, <<>>, FALSE) IN
         [r EXCEPT !.patterns = [i \in 1..Len(r.patterns) |->
                                    r.patterns[Len(r.patterns) + 1 - i]]]

LoadPatterns(file) ==
    IF ~file.exists
    THEN [ok |-> FALSE, patterns |-> <<>>, hasInsensitive |-> FALSE]
    ELSE LoadFrom(file.lines, <<>>, FALSE)

(***************************************************************************)
(* The content scanner, matchReader (reader.go).  Its run is a record: the *)
(* arguments, the local variables, the temporary and the final file of the *)
(* destination folder, and what it reported.  MRStep is one step of it:    *)
(* the preparation of the tee, one iteration of the read loop, or the      *)
(* cleanup.  fault names the one I/O operation of the run that fails:      *)
(*   "mkdirFolder"  os.MkdirAll(saveFullFolder)                            *)
(*   "createTemp"   os.CreateTemp                                          *)
(*   "mkdirParent"  os.MkdirAll(filepath.Dir(final path))                  *)
(*   "rename"       os.Rename                                              *)
(*   "write"        the first write to the temporary file, after errAt     *)
(*                  lines of it                                            *)
(*   "read"         the source's Read after errAt lines                    *)
(***************************************************************************)
NoFile == [exists |-> FALSE, content |-> <<>>]

MatchedResult(desc) ==
    [matched |-> TRUE, err |-> "", line |-> <<>>, lineNum |-> 0, pattern |-> desc]
ErrorResult(e) ==
    [matched |-> FALSE, err |-> e, line |-> <<>>, lineNum |-> 0, pattern |-> <<>>]

MRInit(content, patterns, hasInsensitive, saveFull, folderSet, fault, errAt) ==
    [pc |-> "start",
     content |-> content, patterns |-> patterns,
     hasInsensitive |-> hasInsensitive,
     saveFull |-> saveFull, folderSet |-> folderSet,
     fault |-> fault, errAt |-> errAt,
     pos |-> 0, buf |-> <<>>, bufErr |-> "",
     lineNum |-> 0, linesRead |-> 0, found |-> FALSE, matchedPattern |-> <<>>,
     tmpCreated |-> FALSE, tmpOpen |-> FALSE, tmpExists |-> FALSE,
     tmpContent |-> <<>>, final |-> NoFile,
     results |-> <<>>, matchCount |-> 0, errorCount |-> 0]

\* reader.go 34-46: the tee into a temporary file
MRPrepare(s) ==
    IF s.saveFull /\ s.folderSet
    THEN IF s.fault \in {"mkdirFolder", "createTemp"}
         THEN [s EXCEPT !.pc = "loop", !.saveFull = FALSE]
         ELSE [s EXCEPT !.pc = "loop", !.tmpCreated = TRUE, !.tmpOpen = TRUE,
                        !.tmpExists = TRUE]
    ELSE [s EXCEPT !.pc = "loop"]

Min(a, b) == IF a <= b THEN a ELSE b

\* bufio's fill through io.TeeReader: one Read of the source, copied to the
\* temporary file when the tee is active.  The tee hands on only what its
\* Write wrote: nothing when the file is closed, and the first errAt lines
\* (fewer than it was given) when the write is the one that fails.
MRFill(s) ==
    LET limit == IF s.fault = "read" /\ s.errAt >= s.pos
                 THEN Min(s.errAt, Len(s.content)) ELSE Len(s.content)
        n     == Min(BufLines, limit - s.pos)
        chunk == SubSeq(s.content, s.pos + 1, s.pos + n)
        wrote == SubSeq(chunk, 1, Min(s.errAt, n - 1))
    IN  IF s.fault = "read" /\ s.pos = s.errAt THEN [s EXCEPT !.bufErr = "read"]
        ELSE IF s.pos = Len(s.content) THEN [s EXCEPT !.bufErr = "EOF"]
        ELSE IF ~s.tmpCreated
        THEN [s EXCEPT !.buf = chunk, !.pos = s.pos + n]
        ELSE IF ~s.tmpOpen
        THEN [s EXCEPT !.pos = s.pos + n, !.bufErr = "write"]
        ELSE IF s.fault = "write"
        THEN [s EXCEPT !.buf = wrote, !.pos = s.pos + n, !.bufErr = "write",
                       !.tmpContent = s.tmpContent \o wrote]
        ELSE [s EXCEPT !.buf = chunk, !.pos = s.pos + n,
                       !.tmpContent = s.tmpContent \o chunk]

\* br.ReadBytes('\n'): the next line, or the reader's pending error
MRRead(s) ==
    LET s1 == IF s.buf = <<>> /\ s.bufErr = "" THEN MRFill(s) ELSE s
    IN  IF s1.buf # <<>>
        THEN [st |-> [s1 EXCEPT !.buf = Tail(s1.buf), !.linesRead = s1.linesRead + 1],
              has |-> TRUE, line |-> Head(s1.buf), err |-> ""]
        ELSE [st |-> s1, has |-> FALSE, line |-> <<>>, err |-> s1.bufErr]

\* reader.go 76-99: the save of the full file on a match
MRSave(s, desc) ==
    IF s.tmpCreated
    THEN IF s.fault = "mkdirParent"
         THEN [s EXCEPT !.pc = "done", !.errorCount = s.errorCount + 1,
                        !.results = Append(s.results, ErrorResult("mkdir"))]
         ELSE IF s.fault = "rename" \/ ~s.tmpExists
         THEN [s EXCEPT !.pc = "done", !.tmpOpen = FALSE,
                        !.errorCount = s.errorCount + 1,
                        !.results = Append(s.results, ErrorResult("rename"))]
         ELSE [s EXCEPT !.tmpOpen = FALSE, !.tmpExists = FALSE,
                        !.final = [exists |-> TRUE, content |-> s.tmpContent],
                        !.results = Append(s.results, MatchedResult(desc))]
    ELSE [s EXCEPT !.results = Append(s.results, MatchedResult(desc))]

\* reader.go 57-107: one line against the patterns, in list order
MRMatch(s, line) ==
    LET lineForCheck == IF s.hasInsensitive THEN ToLower(line) ELSE line
        hits == {k \in 1..Len(s.patterns) : Match(s.patterns[k], lineForCheck)}
    IN  IF hits = {} THEN [s EXCEPT !.lineNum = s.lineNum + 1]
        ELSE LET k  == CHOOSE h \in hits : \A g \in hits : h <= g
                 s1 == [s EXCEPT !.matchedPattern = Desc(s.patterns[k]),
                                 !.found = TRUE]
                 s2 == IF s1.saveFull THEN MRSave(s1, s1.matchedPattern) ELSE s1
             IN  IF s2.pc = "done" THEN s2
                 ELSE [s2 EXCEPT !.matchCount = s2.matchCount + 1,
                                 !.lineNum = s2.lineNum + 1]

\* a read loop that ends at a read error without reporting it
MRLoop_SilentError(s) ==
    LET r  == MRRead(s)
        s1 == IF r.has THEN MRMatch(r.st, r.line) ELSE r.st
    IN  IF s1.pc = "done" THEN s1
        ELSE IF r.err = "" THEN s1
        ELSE [s1 EXCEPT !.pc = "cleanup"]

\* reader.go 55-116: one iteration of the read loop
MRLoop(s) ==
    LET r  == MRRead(s)
        s1 == IF r.has THEN MRMatch(r.st, r.line) ELSE r.st
    IN  IF s1.pc = "done" THEN s1
        ELSE IF r.err = "" THEN s1
        ELSE IF r.err = "EOF" THEN [s1 EXCEPT !.pc = "cleanup"]
        ELSE [s1 EXCEPT !.pc = "cleanup", !.errorCount = s1.errorCount + 1,
                        !.results = Append(s1.results, ErrorResult(r.err))]

\* reader.go 118-127: the temporary file is removed when nothing matched
MRCleanup(s) ==
    IF s.saveFull /\ s.tmpCreated
    THEN [s EXCEPT !.pc = "done", !.tmpOpen = FALSE,
                   !.tmpExists = IF ~s.found THEN FALSE ELSE s.tmpExists]
    ELSE [s EXCEPT !.pc = "done"]

MRStep(s) ==
    CASE s.pc = "start"   -> MRPrepare(s)
      [] s.pc = "loop"    -> MRLoop(s)
      [] s.pc = "cleanup" -> MRCleanup(s)
      [] OTHER            -> s

\* matchReader from its call to its return
RECURSIVE MRRun(_)
MRRun(s) == IF s.pc = "done" THEN s ELSE MRRun(MRStep(s))

(***************************************************************************)
(* The scan (stats.go, FileScanner.Scan): the controller's select loop,    *)
(* the walker goroutine, the workers of the pool, the cancellation token.  *)
(* The matchReader specification uses mr alone.                            *)
(***************************************************************************)
VARIABLES
    opts,        \* ScanOptions and the corpus under the roots
    cancelled,   \* ctx.Err() != nil
    ctl,         \* where the controller is
    ret,         \* what Scan returned
    ctlErr,      \* the error received from walkErr, while waiting for the workers
    loaded,      \* patterns and hasInsensitive, from LoadPatterns
    fileCh,      \* the task queue: buffered tasks, and whether it is closed
    walkErr,     \* the walker's channel: buffered errors, and whether it is closed
    cur,         \* the task the controller received and is submitting
    wg,          \* the wait group's counter
    walker,      \* where the walker goroutine is
    assigned,    \* tasks handed to a worker that has not yet run the ctx check
    scanning,    \* tasks being scanned
    counters,    \* found, processed, errorsC, matches
    results,     \* what onMatch received, per file path
    opened,      \* the paths a worker has called os.Open on
    openedLate,  \* ... among them those opened after an error had been reported
    dest,        \* the destination folder: the final file of each source
    mr,          \* the run of matchReader (the matchReader specification)
    sink,        \* the result sink: AppStats, its locks, what it wrote, its callers
    app          \* main's Action: where it is, what it printed, its exit code

scanVars == <<opts, cancelled, ctl, ret, ctlErr, loaded, fileCh, walkErr, cur, wg,
              walker, assigned, scanning, counters, results, opened, openedLate, dest,
              sink, app>>
vars == <<opts, cancelled, ctl, ret, ctlErr, loaded, fileCh, walkErr, cur, wg,
          walker, assigned, scanning, counters, results, opened, openedLate, dest, mr,
          sink, app>>

(***************************************************************************)
(* The inputs.                                                             *)
(***************************************************************************)
Foo  == <<"f","o","o">>
Bar1 == <<"b","a","r","1">>
Bar2 == <<"b","a","r","2">>
Nope == <<"n","o","p","e">>
ReBarD == <<"r","e",":","b","a","r","\\d","+">>

\* the pattern file and the two files of TestFileScanner_Scan_Integration
TestPatternFile == [exists |-> TRUE, lines |-> <<Foo, ReBarD>>]
ContentA == <<Foo, Bar1>>
ContentB == <<Nope, Bar2>>

PatternFiles ==
    { TestPatternFile,
      [exists |-> TRUE, lines |-> <<Foo, <<"r","e",":","[">> >>],
      [exists |-> FALSE, lines |-> <<>>] }

\* what the walk of a root meets: a file, a file that os.Open fails on in the
\* worker, or an entry WalkDir reports with an error; fault and errAt are the
\* I/O failure that scanning the file meets (as in matchReader's run)
EntryKinds ==
    { [kind |-> "file", content |-> ContentA, fault |-> "none", errAt |-> 0],
      [kind |-> "file", content |-> ContentB, fault |-> "none", errAt |-> 0],
      [kind |-> "unreadable", content |-> <<>>, fault |-> "none", errAt |-> 0],
      [kind |-> "walkerr", content |-> <<>>, fault |-> "none", errAt |-> 0] }

\* the entries of all roots in walk order; an entry's index is its path
Listings == UNION { [1..n -> EntryKinds] : n \in 0..MaxEntries }

\* the sequences of k root sizes, each at least 1, that add up to n
RECURSIVE Cuts(_, _)
Cuts(n, k) ==
    IF k = 1 THEN (IF n >= 1 THEN { <<n>> } ELSE {})
    ELSE UNION { { <<c>> \o rest : rest \in Cuts(n - c, k - 1) } : c \in 1..n }

\* a root holds at least one entry, but for the one empty root of an empty corpus
RootSizes(n) == IF n = 0 THEN { <<0>> } ELSE UNION { Cuts(n, k) : k \in 1..MaxRoots }

RECURSIVE RootStart(_, _)
RootStart(sizes, r) == IF r = 1 THEN 0 ELSE sizes[r - 1] + RootStart(sizes, r - 1)

\* opts.Roots with what WalkDir meets under each root, in walk order
RootsOf(l, sizes) ==
    [r \in 1..Len(sizes) |->
        [e \in 1..sizes[r] |->
            [id |-> RootStart(sizes, r) + e,
             kind |-> l[RootStart(sizes, r) + e].kind,
             content |-> l[RootStart(sizes, r) + e].content,
             fault |-> l[RootStart(sizes, r) + e].fault,
             errAt |-> l[RootStart(sizes, r) + e].errAt]]]

Corpora == UNION { { RootsOf(l, z) : z \in RootSizes(Len(l)) } : l \in Listings }

Ids == 1..MaxEntries
NoTask == [path |-> 0, innerPath |-> 0, isArchive |-> FALSE]
Task(id) == [path |-> id, innerPath |-> 0, isArchive |-> FALSE]

OptsSet ==
    { [FailFast |-> ff, Threads |-> th, SaveFull |-> sf, PatternFile |-> pf,
       Roots |-> c] :
        ff \in BOOLEAN, th \in 1..MaxThreads, sf \in BOOLEAN, pf \in PatternFiles,
        c \in Corpora }

\* the entries of all roots, and the entry of a path
AllEntries(o) ==
    UNION { { o.Roots[r][e] : e \in 1..Len(o.Roots[r]) } : r \in 1..Len(o.Roots) }
EntryOf(o, id) == CHOOSE x \in AllEntries(o) : x.id = id

NoResults == [i \in Ids |-> <<>>]
NoDest == [i \in Ids |-> NoFile]
MRIdle == MRInit(<<>>, <<>>, FALSE, FALSE, FALSE, "none", 0)

\* the sink before NewResultSink's closure was ever called, and main before
\* its Action runs
SinkIdle ==
    [Errors |-> 0, Matches |-> 0, writes |-> <<>>, matchesFileMu |-> 0,
     registry |-> {}, patHeld |-> {}, calls |-> <<>>]
AppIdle == [pc |-> "none", summary |-> <<>>, exit |-> 0]

\* stats.go 174-182, 203, 254: the state Scan starts from
ScanIdle ==
    /\ cancelled = FALSE
    /\ ctl = "idle"
    /\ ret = ""
    /\ ctlErr = ""
    /\ loaded = [ok |-> FALSE, patterns |-> <<>>, hasInsensitive |-> FALSE]
    /\ fileCh = [buf |-> <<>>, closed |-> FALSE]
    /\ walkErr = [buf |-> <<>>, closed |-> FALSE]
    /\ cur = NoTask
    /\ wg = 0
    /\ walker = [pc |-> "idle", root |-> 1, entry |-> 1]
    /\ assigned = {}
    /\ scanning = {}
    /\ counters = [found |-> 0, processed |-> 0, errorsC |-> 0, matches |-> 0]
    /\ results = NoResults
    /\ opened = {}
    /\ openedLate = {}
    /\ dest = NoDest
    /\ sink = SinkIdle
    /\ app = AppIdle
    /\ mr = MRIdle

Init == opts \in OptsSet /\ ScanIdle

\* the process is alive: a panic of any goroutine ends all of them
Alive == ctl # "panicked" /\ walker.pc # "panicked"

(***************************************************************************)
(* The cancellation token.                                                 *)
(***************************************************************************)
\* the caller cancels ctx at any moment before Scan has returned
Cancel ==
    /\ Alive
    /\ ctl # "returned"
    /\ ~cancelled
    /\ cancelled' = TRUE
    /\ UNCHANGED <<sink, app, opts, ctl, ret, ctlErr, loaded, fileCh, walkErr, cur, wg, walker,
                   assigned, scanning, counters, results, opened, openedLate, dest, mr>>

(***************************************************************************)
(* The controller (stats.go 168-292).                                      *)
(***************************************************************************)
\* 169-248: LoadPatterns, the queue, the pool, the start of the walker
\* Scan that logs the error of LoadPatterns and goes on with the patterns it got
ScanStart_IgnoresLoadError ==
    /\ ctl = "idle"
    /\ loaded' = LoadPatterns(opts.PatternFile)
    /\ ctl' = "select"
    /\ walker' = [walker EXCEPT !.pc = "root"]
    /\ UNCHANGED <<sink, app, opts, cancelled, ret, ctlErr, fileCh, walkErr, cur, wg, assigned,
                   scanning, counters, results, opened, openedLate, dest, mr>>

ScanStart ==
    /\ ctl = "idle"
    /\ LET l == LoadPatterns(opts.PatternFile) IN
        /\ loaded' = l
        /\ IF ~l.ok
           THEN ctl' = "returned" /\ ret' = "patternErr" /\ UNCHANGED walker
           ELSE ctl' = "select" /\ UNCHANGED ret
                /\ walker' = [walker EXCEPT !.pc = "root"]
    /\ UNCHANGED <<sink, app, opts, cancelled, ctlErr, fileCh, walkErr, cur, wg, assigned, scanning,
                   counters, results, opened, openedLate, dest, mr>>

\* 257-262: case t, ok := <-fileCh with ok: wg.Add(1), then pool.Invoke
CtlRecvTask ==
    /\ ctl = "select" /\ Alive
    /\ fileCh.buf # <<>>
    /\ cur' = Head(fileCh.buf)
    /\ fileCh' = [fileCh EXCEPT !.buf = Tail(fileCh.buf)]
    /\ wg' = wg + 1
    /\ ctl' = "invoke"
    /\ UNCHANGED <<sink, app, opts, cancelled, ret, ctlErr, loaded, walkErr, walker, assigned,
                   scanning, counters, results, opened, openedLate, dest, mr>>

\* 257-261: case t, ok := <-fileCh with !ok: closing = true, then 290 wg.Wait
CtlRecvClosed ==
    /\ ctl = "select" /\ Alive
    /\ fileCh.buf = <<>> /\ fileCh.closed
    /\ ctl' = "wait"
    /\ UNCHANGED <<sink, app, opts, cancelled, ret, ctlErr, loaded, fileCh, walkErr, cur, wg, walker,
                   assigned, scanning, counters, results, opened, openedLate, dest, mr>>

\* pool.Invoke of a pool made with ants.WithNonblocking(true), its error
\* ignored: the task is dropped when no worker is free
CtlInvoke_Nonblocking ==
    /\ ctl = "invoke" /\ Alive
    /\ IF Cardinality(assigned \cup scanning) < opts.Threads
       THEN assigned' = assigned \cup {cur} /\ UNCHANGED wg
       ELSE wg' = wg - 1 /\ UNCHANGED assigned
    /\ cur' = NoTask
    /\ ctl' = "select"
    /\ UNCHANGED <<sink, app, opts, cancelled, ret, ctlErr, loaded, fileCh, walkErr, walker,
                   scanning, counters, results, opened, openedLate, dest, mr>>

\* 263: pool.Invoke(t) blocks until one of the opts.Threads workers is free
CtlInvoke ==
    /\ ctl = "invoke" /\ Alive
    /\ Cardinality(assigned \cup scanning) < opts.Threads
    /\ assigned' = assigned \cup {cur}
    /\ cur' = NoTask
    /\ ctl' = "select"
    /\ UNCHANGED <<sink, app, opts, cancelled, ret, ctlErr, loaded, fileCh, walkErr, wg, walker,
                   scanning, counters, results, opened, openedLate, dest, mr>>

\* 270-272: case <-ticker.C logs the counters
CtlTick ==
    /\ ctl = "select" /\ Alive
    /\ UNCHANGED vars

\* 273-274: case <-ctx.Done()
CtlCtxDone ==
    /\ ctl = "select" /\ Alive
    /\ cancelled
    /\ ret' = "ctxErr"
    /\ ctl' = "returned"
    /\ UNCHANGED <<sink, app, opts, cancelled, ctlErr, loaded, fileCh, walkErr, cur, wg, walker,
                   assigned, scanning, counters, results, opened, openedLate, dest, mr>>

\* 275-287: case err := <-walkErr; a closed channel delivers nil again and again,
\* and close of a closed channel panics
CtlWalkErr ==
    /\ ctl = "select" /\ Alive
    /\ walkErr.buf # <<>> \/ walkErr.closed
    /\ LET err == IF walkErr.buf # <<>> THEN Head(walkErr.buf) ELSE "" IN
        /\ walkErr' = IF walkErr.buf # <<>>
                      THEN [walkErr EXCEPT !.buf = Tail(walkErr.buf)] ELSE walkErr
        /\ IF fileCh.closed
           THEN ctl' = "panicked" /\ UNCHANGED <<fileCh, ctlErr>>
           ELSE /\ fileCh' = [fileCh EXCEPT !.closed = TRUE]
                /\ ctlErr' = err
                /\ ctl' = IF err # "" THEN "waitErr" ELSE "select"
    /\ UNCHANGED <<sink, app, opts, cancelled, ret, loaded, cur, wg, walker, assigned, scanning,
                   counters, results, opened, openedLate, dest, mr>>

\* 279-283 and 290-291: wg.Wait(), then the return
CtlWait ==
    /\ ctl \in {"wait", "waitErr"} /\ Alive
    /\ wg = 0
    /\ ret' = IF ctl = "wait" THEN "nil" ELSE ctlErr
    /\ ctl' = "returned"
    /\ UNCHANGED <<sink, app, opts, cancelled, ctlErr, loaded, fileCh, walkErr, cur, wg, walker,
                   assigned, scanning, counters, results, opened, openedLate, dest, mr>>

(***************************************************************************)
(* The extension filter (options.go): the maps Prepare builds and          *)
(* allowedExt.                                                             *)
(***************************************************************************)
NilMap == [nil |-> TRUE, keys |-> {}]

\* toSet
toSet(s) ==
    IF Len(s) = 0 THEN NilMap
    ELSE [nil |-> FALSE, keys |-> { s[i] : i \in 1..Len(s) }]

\* useWhitelist: len(o.whMap) > 0
useWhitelist(o) == Cardinality(o.whMap.keys) > 0

\* allowedExt that consults the blacklist before the whitelist
allowedExt_BlacklistFirst(o, ext) ==
    IF ext \in o.blMap.keys THEN FALSE
    ELSE IF useWhitelist(o) THEN ext \in o.whMap.keys
    ELSE TRUE

\* allowedExt
allowedExt(o, ext) ==
    IF useWhitelist(o) THEN ext \in o.whMap.keys
    ELSE IF o.blMap.nil THEN TRUE
    ELSE ~(ext \in o.blMap.keys)

\* stats.go 225-228: the walker's filter on the entry's own extension; the
\* corpora whose entries carry no extension are scanned without lists
ExtFiltered(o, e) == "ext" \in DOMAIN e /\ ~allowedExt(o, e.ext)

(***************************************************************************)
(* The walker goroutine (stats.go 204-248, fs.go 59-75).                   *)
(***************************************************************************)
\* 205: defer close(walkErr); the goroutine sends nothing on the channel
WalkerFinish(w) == [w EXCEPT !.pc = "done"]

\* a walker that closes walkErr when it starts on the first root
WalkerRoot_ClosesEarly ==
    /\ walker.pc = "root" /\ Alive
    /\ IF walker.root > Len(opts.Roots) \/ cancelled
       THEN /\ walker' = WalkerFinish(walker)
            /\ walkErr' = [walkErr EXCEPT !.closed = TRUE]
       ELSE /\ walker' = [walker EXCEPT !.pc = "entry", !.entry = 1]
            /\ walkErr' = [walkErr EXCEPT !.closed = TRUE]
    /\ UNCHANGED <<sink, app, opts, cancelled, ctl, ret, ctlErr, loaded, fileCh, cur, wg,
                   assigned, scanning, counters, results, opened, openedLate, dest, mr>>

\* 206-210: the loop over opts.Roots; WalkWithDepth's result is dropped
WalkerRoot ==
    /\ walker.pc = "root" /\ Alive
    /\ IF walker.root > Len(opts.Roots) \/ cancelled
       THEN /\ walker' = WalkerFinish(walker)
            /\ walkErr' = [walkErr EXCEPT !.closed = TRUE]
       ELSE /\ walker' = [walker EXCEPT !.pc = "entry", !.entry = 1]
            /\ UNCHANGED walkErr
    /\ UNCHANGED <<sink, app, opts, cancelled, ctl, ret, ctlErr, loaded, fileCh, cur, wg, assigned,
                   scanning, counters, results, opened, openedLate, dest, mr>>

\* fs.go 60-74 and stats.go 210-239: WalkDir's callback on the next entry: the
\* extension filter (225-228), then with opts.Archives an archive goes to
\* WalkArchive (229-237)
WalkerVisit ==
    /\ walker.pc = "entry" /\ Alive
    /\ LET root == opts.Roots[walker.root]
           nextRoot == [walker EXCEPT !.pc = "root", !.root = walker.root + 1]
       IN  IF walker.entry > Len(root) \/ cancelled
           THEN walker' = nextRoot /\ UNCHANGED <<counters, results>>
           ELSE LET e == root[walker.entry] IN
                IF e.kind = "walkerr"
                THEN /\ counters' = [counters EXCEPT !.errorsC = counters.errorsC + 1]
                     /\ results' = [results EXCEPT
                                      ![e.id] = Append(results[e.id], ErrorResult("walk"))]
                     /\ walker' = IF opts.FailFast THEN nextRoot
                                  ELSE [walker EXCEPT !.entry = walker.entry + 1]
                ELSE IF ExtFiltered(opts, e)
                THEN /\ walker' = [walker EXCEPT !.entry = walker.entry + 1]
                     /\ UNCHANGED <<counters, results>>
                ELSE IF e.kind = "archive" /\ opts.Archives
                THEN /\ walker' = [walker EXCEPT !.pc = "archive"]
                     /\ UNCHANGED <<counters, results>>
                ELSE /\ counters' = [counters EXCEPT !.found = counters.found + 1]
                     /\ walker' = [walker EXCEPT !.pc = "push"]
                     /\ UNCHANGED results
    /\ UNCHANGED <<sink, app, opts, cancelled, ctl, ret, ctlErr, loaded, fileCh, walkErr, cur, wg,
                   assigned, scanning, opened, openedLate, dest, mr>>

\* the push into a queue that grows without bound
WalkerPush_NoBackpressure ==
    /\ walker.pc = "push" /\ Alive
    /\ LET e == opts.Roots[walker.root][walker.entry] IN
        IF fileCh.closed
        THEN walker' = [walker EXCEPT !.pc = "panicked"] /\ UNCHANGED fileCh
        ELSE /\ fileCh' = [fileCh EXCEPT !.buf = Append(fileCh.buf, Task(e.id))]
             /\ walker' = [walker EXCEPT !.pc = "entry", !.entry = walker.entry + 1]
    /\ UNCHANGED <<sink, app, opts, cancelled, ctl, ret, ctlErr, loaded, walkErr, cur, wg, assigned,
                   scanning, counters, results, opened, openedLate, dest, mr>>

\* 240-241: case fileCh <- Task{path: path}; a send on a closed channel panics
WalkerPush ==
    /\ walker.pc = "push" /\ Alive
    /\ fileCh.closed \/ Len(fileCh.buf) < QueueCap
    /\ LET e == opts.Roots[walker.root][walker.entry] IN
        IF fileCh.closed
        THEN walker' = [walker EXCEPT !.pc = "panicked"] /\ UNCHANGED fileCh
        ELSE /\ fileCh' = [fileCh EXCEPT !.buf = Append(fileCh.buf, Task(e.id))]
             /\ walker' = [walker EXCEPT !.pc = "entry", !.entry = walker.entry + 1]
    /\ UNCHANGED <<sink, app, opts, cancelled, ctl, ret, ctlErr, loaded, walkErr, cur, wg, assigned,
                   scanning, counters, results, opened, openedLate, dest, mr>>

\* 242-243: case <-ctx.Done(): return ctx.Err()
WalkerPushCancelled ==
    /\ walker.pc = "push" /\ Alive
    /\ cancelled
    /\ walker' = [walker EXCEPT !.pc = "root", !.root = walker.root + 1]
    /\ UNCHANGED <<sink, app, opts, cancelled, ctl, ret, ctlErr, loaded, fileCh, walkErr, cur, wg,
                   assigned, scanning, counters, results, opened, openedLate, dest, mr>>

(***************************************************************************)
(* The workers of the pool (stats.go 184-196, 294-314).                    *)
(***************************************************************************)
\* a pool function without the ctx check
WorkerBegin_NoCtxCheck(t) ==
    /\ t \in assigned /\ Alive
    /\ assigned' = assigned \ {t}
    /\ scanning' = scanning \cup {t}
    /\ counters' = [counters EXCEPT !.processed = counters.processed + 1]
    /\ UNCHANGED <<sink, app, opts, cancelled, ctl, ret, ctlErr, loaded, fileCh, walkErr, cur,
                   wg, walker, results, opened, openedLate, dest, mr>>

\* 185-190: defer wg.Done(); the ctx check; processed.Add(1)
WorkerBegin(t) ==
    /\ t \in assigned /\ Alive
    /\ assigned' = assigned \ {t}
    /\ IF cancelled
       THEN wg' = wg - 1 /\ UNCHANGED <<scanning, counters>>
       ELSE /\ scanning' = scanning \cup {t}
            /\ counters' = [counters EXCEPT !.processed = counters.processed + 1]
            /\ UNCHANGED wg
    /\ UNCHANGED <<sink, app, opts, cancelled, ctl, ret, ctlErr, loaded, fileCh, walkErr, cur,
                   walker,
                   results, opened, openedLate, dest, mr>>

\* options.go 32: Validate has SaveFullFolder set whenever SaveFull is
FolderSet(o) == o.SaveFull

\* 294-314: scanRegularFile: os.Open, then matchReader to its return; the
\* value is the run at its end, with what it reported (results, matchCount,
\* errorCount) and the final file it left
ScanRegularFile(o, l, e) ==
    IF e.kind = "archive"
    THEN [MRIdle EXCEPT !.pc = "done"]   \* 302-304: IsArchive(path)
    ELSE IF e.kind = "unreadable"
    THEN [MRIdle EXCEPT !.pc = "done", !.results = <<ErrorResult("open")>>,
                        !.errorCount = 1]
    ELSE MRRun(MRInit(e.content, l.patterns, l.hasInsensitive, o.SaveFull,
                      FolderSet(o), e.fault, e.errAt))

\* a worker's failed os.Open has been reported to onMatch
OpenErrorReported ==
    \E i \in Ids : \E k \in 1..Len(results[i]) : results[i][k].err = "open"

\* a worker whose match counter is a plain int64: its read-modify-write is
\* lost when another worker is scanning at the same time
WorkerScan_LostUpdate(t) ==
    /\ t \in scanning /\ Alive
    /\ \E r \in { ScanRegularFile(opts, loaded, EntryOf(opts, t.path)) } :
           /\ opened' = opened \cup {t.path}
           /\ openedLate' = IF OpenErrorReported THEN openedLate \cup {t.path}
                            ELSE openedLate
           /\ results' = [results EXCEPT ![t.path] = results[t.path] \o r.results]
           /\ counters' = [counters EXCEPT
                             !.matches = IF Cardinality(scanning) > 1
                                         THEN counters.matches
                                         ELSE counters.matches + r.matchCount,
                             !.errorsC = counters.errorsC + r.errorCount]
           /\ dest' = IF r.final.exists THEN [dest EXCEPT ![t.path] = r.final] ELSE dest
    /\ scanning' = scanning \ {t}
    /\ wg' = wg - 1
    /\ UNCHANGED <<sink, app, opts, cancelled, ctl, ret, ctlErr, loaded, fileCh, walkErr, cur,
                   walker,
                   assigned, mr>>

\* 191-195 and 294-314: the worker scans its task and reports to onMatch and
\* to the atomic counters; 185: wg.Done
WorkerScan(t) ==
    /\ t \in scanning /\ Alive
    /\ \E r \in { ScanRegularFile(opts, loaded, EntryOf(opts, t.path)) } :
           /\ opened' = opened \cup {t.path}
           /\ openedLate' = IF OpenErrorReported THEN openedLate \cup {t.path}
                            ELSE openedLate
           /\ results' = [results EXCEPT ![t.path] = results[t.path] \o r.results]
           /\ counters' = [counters EXCEPT !.matches = counters.matches + r.matchCount,
                                           !.errorsC = counters.errorsC + r.errorCount]
           /\ dest' = IF r.final.exists THEN [dest EXCEPT ![t.path] = r.final] ELSE dest
    /\ scanning' = scanning \ {t}
    /\ wg' = wg - 1
    /\ UNCHANGED <<sink, app, opts, cancelled, ctl, ret, ctlErr, loaded, fileCh, walkErr, cur,
                   walker,
                   assigned, mr>>

Tasks == { Task(i) : i \in Ids }

Next ==
    \/ ScanStart
    \/ CtlRecvTask
    \/ CtlRecvClosed
    \/ CtlInvoke
    \/ CtlTick
    \/ CtlCtxDone
    \/ CtlWalkErr
    \/ CtlWait
    \/ WalkerRoot
    \/ WalkerVisit
    \/ WalkerPush
    \/ WalkerPushCancelled
    \/ \E t \in Tasks : WorkerBegin(t)
    \/ \E t \in Tasks : WorkerScan(t)
    \/ Cancel

Spec == Init /\ [][Next]_vars

(***************************************************************************)
(* The matchReader specification: one call of matchReader, stepwise, on    *)
(* every content, pattern file, mode and fault within the bounds.          *)
(***************************************************************************)
FooUpper == <<"F","o","o">>
ReaderLines == { Foo, Bar1, Nope, FooUpper }
ReaderContents == UNION { [1..n -> ReaderLines] : n \in 0..MaxLines }
ReaderPatternFiles ==
    { TestPatternFile,
      [exists |-> TRUE, lines |-> << PlainIPrefix \o FooUpper >>],
      [exists |-> TRUE, lines |-> << FooUpper, PlainIPrefix \o <<"b","a","r">> >>],
      [exists |-> TRUE, lines |-> << Foo, PlainIPrefix \o <<"b","a","r">> >>] }
FsFaults == { "none", "mkdirFolder", "createTemp", "mkdirParent", "rename" }

ReaderInputs ==
    { MRInit(c, LoadPatterns(pf).patterns, LoadPatterns(pf).hasInsensitive,
             sf, fs, f[1], f[2]) :
        c \in ReaderContents, pf \in ReaderPatternFiles, sf \in BOOLEAN, fs \in BOOLEAN,
        f \in (FsFaults \X {0}) \cup ({"read", "write"} \X (0..MaxLines)) }

ReaderInit ==
    /\ mr \in { m \in ReaderInputs : m.errAt <= Len(m.content) }
    /\ opts = [FailFast |-> FALSE, Threads |-> 1, SaveFull |-> FALSE,
               PatternFile |-> TestPatternFile, Roots |-> << <<>> >>]
    /\ cancelled = FALSE
    /\ ctl = "idle"
    /\ ret = ""
    /\ ctlErr = ""
    /\ loaded = [ok |-> FALSE, patterns |-> <<>>, hasInsensitive |-> FALSE]
    /\ fileCh = [buf |-> <<>>, closed |-> FALSE]
    /\ walkErr = [buf |-> <<>>, closed |-> FALSE]
    /\ cur = NoTask
    /\ wg = 0
    /\ walker = [pc |-> "idle", root |-> 1, entry |-> 1]
    /\ assigned = {}
    /\ scanning = {}
    /\ counters = [found |-> 0, processed |-> 0, errorsC |-> 0, matches |-> 0]
    /\ results = NoResults
    /\ opened = {}
    /\ openedLate = {}
    /\ dest = NoDest
    /\ sink = SinkIdle
    /\ app = AppIdle

ReaderPrepare == mr.pc = "start" /\ mr' = MRStep(mr) /\ UNCHANGED scanVars
ReaderLoop == mr.pc = "loop" /\ mr' = MRStep(mr) /\ UNCHANGED scanVars
ReaderCleanup == mr.pc = "cleanup" /\ mr' = MRStep(mr) /\ UNCHANGED scanVars

ReaderNext == ReaderPrepare \/ ReaderLoop \/ ReaderCleanup

SpecReader == ReaderInit /\ [][ReaderNext]_vars

(***************************************************************************)
(* The default result sink (stats.go 110-165): its two counters, as        *)
(* functions of what onMatch received.                                     *)
(***************************************************************************)
RECURSIVE SumOver(_, _)
SumOver(f, n) == IF n = 0 THEN 0 ELSE f[n] + SumOver(f, n - 1)

\* stats.Errors: one per result with an error
SinkErrors ==
    SumOver([i \in Ids |->
        Cardinality({ k \in 1..Len(results[i]) : results[i][k].err # "" })], MaxEntries)

\* stats.Matches: one per result without an error and with Matched set
SinkMatches ==
    SumOver([i \in Ids |->
        Cardinality({ k \in 1..Len(results[i]) :
            results[i][k].err = "" /\ results[i][k].matched })], MaxEntries)

(***************************************************************************)
(* What the claims speak of.                                               *)
(***************************************************************************)
\* the line as the read loop tests it, and whether some pattern matches it
LineForCheck(hasInsensitive, line) == IF hasInsensitive THEN ToLower(line) ELSE line
LineMatches(patterns, hasInsensitive, line) ==
    \E k \in 1..Len(patterns) : Match(patterns[k], LineForCheck(hasInsensitive, line))
FirstMatch(patterns, hasInsensitive, line) ==
    CHOOSE k \in 1..Len(patterns) :
        /\ Match(patterns[k], LineForCheck(hasInsensitive, line))
        /\ \A j \in 1..(k - 1) : ~Match(patterns[j], LineForCheck(hasInsensitive, line))

MatchingLines(patterns, hasInsensitive, content) ==
    { k \in 1..Len(content) : LineMatches(patterns, hasInsensitive, content[k]) }

\* the results with Matched set, in the order of their delivery
RECURSIVE MatchedOf(_)
MatchedOf(rs) ==
    IF rs = <<>> THEN <<>>
    ELSE IF Head(rs).matched THEN <<Head(rs)>> \o MatchedOf(Tail(rs))
    ELSE MatchedOf(Tail(rs))

\* one result per matching line from line k on, with the line's number and text
RECURSIVE LineResultsFrom(_, _, _, _)
LineResultsFrom(patterns, hasInsensitive, content, k) ==
    IF k > Len(content) THEN <<>>
    ELSE IF LineMatches(patterns, hasInsensitive, content[k])
    THEN << [matched |-> TRUE, err |-> "", line |-> content[k], lineNum |-> k - 1,
             pattern |-> Desc(patterns[FirstMatch(patterns, hasInsensitive, content[k])])] >>
         \o LineResultsFrom(patterns, hasInsensitive, content, k + 1)
    ELSE LineResultsFrom(patterns, hasInsensitive, content, k + 1)

\* the paths the walker pushes when nothing is cancelled: every file, but
\* under FailFast those behind a walk error of their root
Pushed(o) ==
    { o.Roots[r][e].id : <<r, e>> \in
        { x \in (1..Len(o.Roots)) \X (1..MaxEntries) :
            /\ x[2] <= Len(o.Roots[x[1]])
            /\ o.Roots[x[1]][x[2]].kind # "walkerr"
            /\ o.FailFast =>
                 \A j \in 1..(x[2] - 1) : o.Roots[x[1]][j].kind # "walkerr" } }

Files(o) == { x.id : x \in { y \in AllEntries(o) : y.kind = "file" } }
Unreadable(o) == { x.id : x \in { y \in AllEntries(o) : y.kind = "unreadable" } }
WalkErrs(o) == { x.id : x \in { y \in AllEntries(o) : y.kind = "walkerr" } }

\* the lines of the files a worker opened that match some pattern
MatchingLinesScanned ==
    SumOver([i \in Ids |->
        IF i \in opened \cap Files(opts)
        THEN Cardinality(MatchingLines(loaded.patterns, loaded.hasInsensitive,
                                       EntryOf(opts, i).content))
        ELSE 0], MaxEntries)

\* what one worker after the other reports for the pushed paths
SequentialMatched(o, l) ==
    SumOver([i \in Ids |->
        IF i \in Pushed(o)
        THEN Len(MatchedOf(ScanRegularFile(o, l, EntryOf(o, i)).results)) ELSE 0],
        MaxEntries)
SequentialMatches(o, l) ==
    SumOver([i \in Ids |->
        IF i \in Pushed(o) THEN ScanRegularFile(o, l, EntryOf(o, i)).matchCount ELSE 0],
        MaxEntries)

WalkErrorReported ==
    \E i \in Ids : \E k \in 1..Len(results[i]) : results[i][k].err = "walk"

ReturnedNil == ctl = "returned" /\ ret = "nil"

\* the run of matchReader is in line mode, or in save-full mode with the folder set
LineMode(m) == ~m.saveFull /\ m.fault = "none"
SaveFullMode(m) == m.saveFull /\ m.folderSet /\ m.fault = "none"

(***************************************************************************)
(* The claims.                                                             *)
(***************************************************************************)

\* C1: in line mode, when matchReader has returned, onMatch has received exactly
\* one result with Matched set per line that some pattern matches, in file
\* order, each with the line's number and text.
C1_LineModeReportsEveryMatch ==
    (mr.pc = "done" /\ LineMode(mr)) =>
        MatchedOf(mr.results) =
            LineResultsFrom(mr.patterns, mr.hasInsensitive, mr.content, 1)

\* C2: in line mode, when Scan has returned nil without cancellation, the number
\* of results with Matched set equals the number of matching lines of the
\* scanned files; for the patterns foo and re:bar\d+ over the files foo, bar1
\* and nope, bar2 that is 3.
C2_ScanDeliversMatchingLines ==
    (ReturnedNil /\ ~cancelled /\ ~opts.SaveFull) =>
        /\ SinkMatches = MatchingLinesScanned
        /\ ( /\ opts.PatternFile = TestPatternFile
             /\ Len(opts.Roots) = 1
             /\ Len(opts.Roots[1]) = 2
             /\ { opts.Roots[1][e].kind : e \in 1..2 } = {"file"}
             /\ { opts.Roots[1][e].content : e \in 1..2 } = {ContentA, ContentB} )
           => SinkMatches = 3

\* no fail-fast abort is due: FailFast is off, or no error has been counted
NoFailFastAbort == ~opts.FailFast \/ counters.errorsC = 0

\* C3: without cancellation and fail-fast abort, once the walker has finished,
\* whatever the select loop chooses, the scan does not stop short of its
\* return, and it returns nil with every pushed task processed and the queue
\* closed.
C3_ScanCompletesAfterWalk ==
    (walker.pc = "done" /\ ~cancelled /\ NoFailFastAbort) =>
        /\ ctl # "panicked"
        /\ ctl = "returned" =>
            /\ ret = "nil"
            /\ fileCh.closed /\ fileCh.buf = <<>>
            /\ counters.processed = counters.found

\* C4: with FailFast, once the walker has reported a traversal error, a Scan
\* that returns without cancellation returns ErrWalkFailFast, with the queue
\* closed and no worker outstanding.
C4_FailFastWalkError ==
    (opts.FailFast /\ WalkErrorReported /\ ctl = "returned" /\ ~cancelled) =>
        /\ ret = "ErrWalkFailFast"
        /\ fileCh.closed
        /\ wg = 0

\* the corpus holds exactly one unreadable file and no entry with a walk error
OneUnreadableFile ==
    Cardinality(Unreadable(opts)) = 1 /\ WalkErrs(opts) = {} /\ loaded.ok

\* C5: with FailFast and exactly one unreadable file, no worker opens a file
\* after the failed open has been reported, and a Scan that returns without
\* cancellation returns the fail-fast sentinel.
C5_FailFastUnreadableFile ==
    (opts.FailFast /\ OneUnreadableFile /\ ~cancelled) =>
        /\ openedLate = {}
        /\ ctl = "returned" => ret = "ErrWalkFailFast"

\* C6: without FailFast, on a corpus with exactly one unreadable file and no
\* cancellation, Scan completes: it does not stop short of its return, and it
\* returns nil with every other file opened and exactly one error result
\* delivered.
C6_UnreadableFileIsSkipped ==
    (~opts.FailFast /\ ~opts.SaveFull /\ OneUnreadableFile /\ ~cancelled) =>
        /\ ctl # "panicked"
        /\ ctl = "returned" =>
            /\ ret = "nil"
            /\ Files(opts) \subseteq opened
            /\ SinkErrors = 1

\* C7: a Scan that returns after the token was cancelled returns the context's
\* error (the pattern file having loaded).
C7_CancelledScanReturnsCtxErr ==
    (ctl = "returned" /\ cancelled /\ loaded.ok) => ret = "ctxErr"

\* C8: when Scan has returned nil without cancellation, the number of results
\* with Matched set and the match counter are those of one worker scanning
\* the pushed files one after the other, whatever opts.Threads is and however
\* the workers interleaved.
C8_CountsIndependentOfWorkers ==
    (ReturnedNil /\ ~cancelled) =>
        /\ SinkMatches = SequentialMatched(opts, loaded)
        /\ counters.matches = SequentialMatches(opts, loaded)

\* C8, its case: two workers, two files scanned, two matches reported, nil
\* returned
C8_Witness ==
    /\ ReturnedNil /\ ~cancelled
    /\ opts.Threads >= 2
    /\ Cardinality(opened) >= 2
    /\ SinkMatches >= 2
    /\ counters.matches >= 2

\* C9: in save-full mode, when matchReader has returned for a file with at
\* least one matching line, onMatch has received exactly one result: Matched,
\* without line text, with the description of the pattern that matched the
\* first matching line; no error result.
C9_SaveFullOneResult ==
    LET hits == MatchingLines(mr.patterns, mr.hasInsensitive, mr.content) IN
    (mr.pc = "done" /\ SaveFullMode(mr) /\ hits # {}) =>
        LET first == CHOOSE k \in hits : \A j \in hits : k <= j IN
        mr.results =
            << MatchedResult(Desc(mr.patterns[
                 FirstMatch(mr.patterns, mr.hasInsensitive, mr.content[first])])) >>

\* C10: in save-full mode, when matchReader has returned for a file with
\* exactly one matching line, the final path holds the whole source and the
\* temporary file is gone.
C10_SaveFullWholeFile ==
    LET hits == MatchingLines(mr.patterns, mr.hasInsensitive, mr.content) IN
    (mr.pc = "done" /\ SaveFullMode(mr) /\ Cardinality(hits) = 1) =>
        /\ mr.final = [exists |-> TRUE, content |-> mr.content]
        /\ ~mr.tmpExists


\* a pattern's own predicate holds on the line as it stands in the file
TrulyMatches(patterns, line) ==
    \E k \in 1..Len(patterns) : Match(patterns[k], line)

\* the call asked for the full save: saveFull with the folder set (the
\* preparation clears saveFull when the folder or the temporary file fails)
SaveFullCall(m) ==
    m.folderSet /\ (m.saveFull \/ m.fault \in {"mkdirFolder", "createTemp"})

\* C11: in save-full mode, when matchReader has returned for a file none of
\* whose lines is matched by a pattern, it has left no file in the destination
\* folder: no temporary file and no final file, whatever I/O operation failed.
C11_NoMatchLeavesNoFile ==
    (/\ mr.pc = "done" /\ SaveFullCall(mr)
     /\ \A i \in 1..Len(mr.content) : ~TrulyMatches(mr.patterns, mr.content[i]))
        => (~mr.final.exists /\ ~mr.tmpExists)

(***************************************************************************)
(* The scan of files whose reading or saving meets an I/O failure: one     *)
(* root holding such a file and a sound one, in either order.              *)
(***************************************************************************)
FaultyKinds ==
    { [kind |-> "file", content |-> ContentB, fault |-> f[1], errAt |-> f[2]] :
        f \in ({"read"} \X (0..Len(ContentB))) \cup ({"write"} \X {0, 1})
              \cup ({"mkdirFolder", "createTemp"} \X {0}) }
SoundKind == [kind |-> "file", content |-> ContentA, fault |-> "none", errAt |-> 0]

FaultCorpora ==
    UNION { { RootsOf(<<k, SoundKind>>, <<2>>), RootsOf(<<SoundKind, k>>, <<2>>) } :
            k \in FaultyKinds }

FaultOptsSet ==
    { [FailFast |-> ff, Threads |-> th, SaveFull |-> sf, PatternFile |-> TestPatternFile,
       Roots |-> c] :
        ff \in BOOLEAN, th \in 1..MaxThreads, sf \in BOOLEAN, c \in FaultCorpora }

InitFault == opts \in FaultOptsSet /\ ScanIdle

SpecFault == InitFault /\ [][Next]_vars

\* the error results among the results of a file, in the order of delivery
RECURSIVE ErrorsOf(_)
ErrorsOf(rs) ==
    IF rs = <<>> THEN <<>>
    ELSE IF Head(rs).err # "" THEN <<Head(rs)>> \o ErrorsOf(Tail(rs))
    ELSE ErrorsOf(Tail(rs))

\* scanning the entry meets its I/O failure: a read error always, a failure of
\* the destination only when the full save was asked for
ReadWriteFails(o, e) == e.fault = "read" \/ (e.fault = "write" /\ o.SaveFull)
CreationFails(o, e) == e.fault \in {"mkdirFolder", "createTemp"} /\ o.SaveFull

\* the sound files are scanned as if no other file had failed
SoundFilesUnaffected ==
    \A e \in AllEntries(opts) :
        e.fault = "none" =>
            /\ e.id \in opened
            /\ results[e.id] = ScanRegularFile(opts, loaded, e).results

\* C12: when Scan has returned nil without cancellation, every file whose scan
\* met an I/O failure (a read error, a failed write to the temporary file, a
\* failure to create the folder or the temporary file) has one error result,
\* every reported error is counted, and the other files are scanned as ever.
C12_EveryIOFailureReported ==
    (ReturnedNil /\ ~cancelled) =>
        /\ \A e \in AllEntries(opts) :
              (ReadWriteFails(opts, e) \/ CreationFails(opts, e)) =>
                  Len(ErrorsOf(results[e.id])) = 1
        /\ counters.errorsC = SinkErrors
        /\ SoundFilesUnaffected

\* C12, amended: a read error and a failed write are reported, each as the one
\* error result of its file, and counted; a failure to create the folder or
\* the temporary file is not reported (the file is scanned without the save);
\* the other files are scanned as ever.
C12_ReadWriteFailureReported ==
    (ReturnedNil /\ ~cancelled) =>
        /\ \A e \in AllEntries(opts) :
              /\ ReadWriteFails(opts, e) =>
                    ErrorsOf(results[e.id]) = <<ErrorResult(e.fault)>>
              /\ CreationFails(opts, e) =>
                    /\ ErrorsOf(results[e.id]) = <<>>
                    /\ ~dest[e.id].exists
        /\ counters.errorsC = SinkErrors
        /\ SoundFilesUnaffected

\* C12, its case: two workers, a file whose read failed and a sound file, both
\* scanned, and nil returned
C12_Witness ==
    /\ ReturnedNil /\ ~cancelled
    /\ opts.Threads >= 2
    /\ opened = {1, 2}
    /\ \E e \in AllEntries(opts) :
          /\ ReadWriteFails(opts, e)
          /\ ErrorsOf(results[e.id]) = <<ErrorResult(e.fault)>>
    /\ counters.errorsC >= 1

(***************************************************************************)
(* The scan with a pool whose Invoke may fail (ants: the pool is closed or *)
(* overloaded).                                                            *)
(***************************************************************************)
\* 263-269: pool.Invoke(t) returns an error: wg.Done(), the log line, and
\* under FailFast `return err`; otherwise the task is dropped and the loop
\* goes on
CtlInvokeFail ==
    /\ ctl = "invoke" /\ Alive
    /\ wg' = wg - 1
    /\ cur' = NoTask
    /\ IF opts.FailFast
       THEN ctl' = "returned" /\ ret' = "invokeErr"
       ELSE ctl' = "select" /\ UNCHANGED ret
    /\ UNCHANGED <<sink, app, opts, cancelled, ctlErr, loaded, fileCh, walkErr, walker, assigned,
                   scanning, counters, results, opened, openedLate, dest, mr>>

NextSubmit == Next \/ CtlInvokeFail

SpecSubmit == Init /\ [][NextSubmit]_vars

\* C13: with FailFast, the step in which the submission of a task fails leaves
\* the task queue closed, no worker outstanding, and Scan returned with the
\* fail-fast sentinel.
C13_FailFastSubmitError ==
    [][(CtlInvokeFail /\ opts.FailFast) =>
          /\ fileCh'.closed
          /\ wg' = 0 /\ assigned' = {} /\ scanning' = {}
          /\ ctl' = "returned" /\ ret' = "ErrWalkFailFast"]_vars

(***************************************************************************)
(* Loading pattern files: Scan's first step over pattern files made of     *)
(* every kind of line LoadPatterns tells apart.                            *)
(***************************************************************************)
MaxPatternLines == 3

PlainPrefix == <<"p","l","a","i","n",":">>
PatternLineKinds ==
    { <<>>,
      <<" "," ">>,
      <<"#","c">>,
      <<" ","#","c">>,
      <<" ">> \o Foo \o <<" ">>,
      PlainPrefix \o Foo,
      PlainIPrefix \o FooUpper,
      <<"r","e",":","b","a","r">>,
      <<"r","e",":","[">> }

PatternFileSet ==
    { [exists |-> TRUE, lines |-> l] :
        l \in UNION { [1..n -> PatternLineKinds] : n \in 0..MaxPatternLines } }
      \cup { [exists |-> FALSE, lines |-> <<>>] }

InitPatterns ==
    /\ opts \in { [FailFast |-> FALSE, Threads |-> 1, SaveFull |-> FALSE,
                   PatternFile |-> pf, Roots |-> << <<>> >>] : pf \in PatternFileSet }
    /\ ScanIdle

NextPatterns == ScanStart

SpecPatterns == InitPatterns /\ [][NextPatterns]_vars

\* what the pattern-file format says of a line
IsBlank(line) == \A i \in 1..Len(line) : line[i] = " "
IsComment(line) ==
    \E i \in 1..Len(line) : line[i] = "#" /\ \A j \in 1..(i - 1) : line[j] = " "
IsRegexLine(line) == HasPrefix(TrimSpace(line), RePrefix)
IsInsensitiveLine(line) == HasPrefix(TrimSpace(line), PlainIPrefix)

RECURSIVE PatternLines(_)
PatternLines(lines) ==
    IF lines = <<>> THEN <<>>
    ELSE IF IsBlank(Head(lines)) \/ IsComment(Head(lines))
    THEN PatternLines(Tail(lines))
    ELSE <<Head(lines)>> \o PatternLines(Tail(lines))

\* the pattern file is valid: it exists and each re: line of it compiles
ValidFile(file) ==
    /\ file.exists
    /\ \A k \in 1..Len(PatternLines(file.lines)) :
          IsRegexLine(PatternLines(file.lines)[k]) =>
              Compile(Drop(TrimSpace(PatternLines(file.lines)[k]), 3)).ok

\* the pattern is the one of the line: its kind, and for the prefixed lines
\* its text
PatternOfLine(p, line) ==
    IF IsRegexLine(line)
    THEN p.kind = "re" /\ p.s = Drop(TrimSpace(line), 3)
    ELSE IF IsInsensitiveLine(line)
    THEN p.kind = "plain" /\ p.insensitive /\ p.s = ToLower(Drop(TrimSpace(line), 8))
    ELSE p.kind = "plain" /\ ~p.insensitive

Loaded == ctl # "idle"

InvalidPatternFiles == { f \in PatternFiles \cup PatternFileSet : ~ValidFile(f) }

\* C15: when the pattern file is missing or holds an invalid re: line (also
\* after valid lines), LoadPatterns returns an error and no patterns, and Scan
\* has returned that error with the walker never started, no task queued,
\* submitted or processed, and the callback never invoked.
C15_LoadErrorEndsScan ==
    (Loaded /\ opts.PatternFile \in InvalidPatternFiles) =>
        /\ ~loaded.ok /\ loaded.patterns = <<>> /\ ~loaded.hasInsensitive
        /\ ctl = "returned" /\ ret = "patternErr"
        /\ walker.pc = "idle"
        /\ fileCh.buf = <<>> /\ cur = NoTask /\ wg = 0
        /\ assigned = {} /\ scanning = {} /\ opened = {}
        /\ counters = [found |-> 0, processed |-> 0, errorsC |-> 0, matches |-> 0]
        /\ results = NoResults /\ dest = NoDest

\* Scan returned the load error of a file whose invalid re: line follows a
\* valid line, with roots that hold entries to walk
C15_Witness ==
    /\ ctl = "returned" /\ ret = "patternErr"
    /\ opts.PatternFile.exists /\ Len(opts.PatternFile.lines) >= 2
    /\ ~IsRegexLine(opts.PatternFile.lines[1])
    /\ AllEntries(opts) # {}

\* the lines a pattern is tried on
ProbeLines ==
    { Foo, FooUpper, PlainPrefix \o Foo, <<"x">> \o Foo \o <<"y">>, Bar1, <<>> }

\* the line carries the optional plain: prefix and not plain:i:
IsPlainPrefixLine(line) ==
    HasPrefix(TrimSpace(line), PlainPrefix) /\ ~IsInsensitiveLine(line)

\* C16: the pattern loaded from a line `plain:<text>` (not `plain:i:`) is a
\* case-sensitive substring pattern for <text>: it matches exactly the lines
\* that contain <text>, as the pattern of the bare line <text> does.
C16_PlainPrefixStripped ==
    (Loaded /\ ValidFile(opts.PatternFile)) =>
        LET want == PatternLines(opts.PatternFile.lines) IN
        \A k \in 1..Len(want) :
            (k <= Len(loaded.patterns) /\ IsPlainPrefixLine(want[k])) =>
                \A line \in ProbeLines :
                    /\ Match(loaded.patterns[k], line)
                           = Contains(line, Drop(TrimSpace(want[k]), 6))
                    /\ Match(loaded.patterns[k], line)
                           = Match(LoadPatterns([exists |-> TRUE,
                                 lines |-> << Drop(TrimSpace(want[k]), 6) >>]).patterns[1],
                                   line)

\* the lines of the content that some pattern's own predicate holds on
TrueHits(m) == { i \in 1..Len(m.content) : TrulyMatches(m.patterns, m.content[i]) }

\* C17: when matchReader has read a file to its end in line mode, the lines it
\* counted as matched are exactly those on which some pattern's own predicate
\* holds (plain: the original line contains the literal; regex: the expression
\* matches the original line; plain:i: the lower-cased line contains the
\* literal), whether or not hasInsensitive is set.
C17_MatchedByOwnPredicate ==
    (mr.pc = "done" /\ LineMode(mr)) =>
        /\ mr.matchCount = Cardinality(TrueHits(mr))
        /\ mr.found = (TrueHits(mr) # {})

(***************************************************************************)
(* The extension filter (options.go): the caller prepares the options and  *)
(* then asks allowedExt about extensions.                                  *)
(***************************************************************************)
MaxExts == 2
MaxProcs == 9
\* max(32, runtime.GOMAXPROCS(0)*4)
MinDefaultThreads == 32

Exts == { <<".","t","x","t">>, <<".","l","o","g">>, <<".","b","i","n">> }
ExtProbes == Exts \cup { <<>> }
ExtLists == UNION { [1..n -> Exts] : n \in 0..MaxExts }

InitExt ==
    /\ opts \in { [Whitelist |-> w, Blacklist |-> b, Threads |-> t,
                   whMap |-> NilMap, blMap |-> NilMap] :
                     w \in ExtLists, b \in ExtLists, t \in {0, 1} }
    /\ ScanIdle

\* Prepare
Prepare ==
    /\ ctl = "idle"
    /\ \E procs \in 1..MaxProcs :
          opts' = [opts EXCEPT
                     !.whMap = toSet(opts.Whitelist),
                     !.blMap = toSet(opts.Blacklist),
                     !.Threads = IF opts.Threads <= 0
                                 THEN (IF procs * 4 > MinDefaultThreads
                                       THEN procs * 4 ELSE MinDefaultThreads)
                                 ELSE opts.Threads]
    /\ ctl' = "prepared"
    /\ UNCHANGED <<sink, app, cancelled, ret, ctlErr, loaded, fileCh, walkErr, cur, wg,
                   walker,
                   assigned, scanning, counters, results, opened, openedLate, dest, mr>>

\* a call of allowedExt on prepared options; ret holds the extension asked
\* about and the answer
CheckExt ==
    /\ ctl \in {"prepared", "checked"}
    /\ \E ext \in ExtProbes : ret' = [ext |-> ext, allowed |-> allowedExt(opts, ext)]
    /\ ctl' = "checked"
    /\ UNCHANGED <<sink, app, opts, cancelled, ctlErr, loaded, fileCh, walkErr, cur, wg, walker,
                   assigned, scanning, counters, results, opened, openedLate, dest, mr>>

NextExt == Prepare \/ CheckExt

SpecExt == InitExt /\ [][NextExt]_vars

InList(x, s) == \E i \in 1..Len(s) : s[i] = x

\* C18: after Prepare, allowedExt(ext) is true iff ext is in the whitelist
\* when the whitelist is non-empty (the blacklist is then ignored), and
\* otherwise iff ext is not in the blacklist.
C18_WhitelistPrecedence ==
    ctl = "checked" =>
        ret.allowed = IF opts.Whitelist # <<>>
                      THEN InList(ret.ext, opts.Whitelist)
                      ELSE ~InList(ret.ext, opts.Blacklist)

\* an extension that is both whitelisted and blacklisted was accepted
C18_Witness ==
    /\ ctl = "checked"
    /\ InList(ret.ext, opts.Whitelist) /\ InList(ret.ext, opts.Blacklist)
    /\ ret.allowed

(***************************************************************************)
(* The depth-bounded walk (fs.go): WalkWithDepth over a directory tree     *)
(* with a visit callback that returns nil.  A path is the sequence of the  *)
(* names below the root; the entry named "d" is a directory, "c" and "e"   *)
(* are files; filepath.WalkDir walks a directory's entries in lexical      *)
(* order.  walker.todo holds the entries WalkDir has still to come to, in  *)
(* the order of the walk; walker.visited those passed to the callback.     *)
(***************************************************************************)
MaxTreeDepth == 3
MaxDepthOpt == 3

PathSeparator == "/"
DirName == "d"
NameOrder == <<"c", "d", "e">>

RECURSIVE DirChain(_)
DirChain(k) == IF k = 0 THEN <<>> ELSE Append(DirChain(k - 1), DirName)

AllPaths ==
    { Append(DirChain(k), NameOrder[i]) : k \in 0..(MaxTreeDepth - 1), i \in 1..3 }
Front(p) == SubSeq(p, 1, Len(p) - 1)
IsDir(p) == p = <<>> \/ p[Len(p)] = DirName

\* the directory trees: every entry's parent is a directory of the tree
Trees == { t \in SUBSET AllPaths : \A p \in t : Len(p) > 1 => Front(p) \in t }

\* os.ReadDir: the entries of directory p, sorted by name
ReadDir(t, p) ==
    SelectSeq([i \in 1..3 |-> Append(p, NameOrder[i])], LAMBDA q : q \in t)

\* Rel that yields the entry's name
Rel_BaseName(p) == IF p = <<>> THEN <<".">> ELSE <<p[Len(p)]>>

\* filepath.Rel(root, path), as a string
RECURSIVE Rel(_)
Rel(p) ==
    IF p = <<>> THEN <<".">>
    ELSE IF Len(p) = 1 THEN p
    ELSE Rel(Front(p)) \o <<PathSeparator, p[Len(p)]>>

\* strings.Count(s, c) for a one-character c
Count(s, c) == Cardinality({ i \in 1..Len(s) : s[i] = c })

\* depthCount without the + 1
depthCount_Separators(rel) == IF rel = <<>> THEN 0 ELSE Count(rel, PathSeparator)

\* depthCount
depthCount(rel) == IF rel = <<>> THEN 0 ELSE Count(rel, PathSeparator) + 1

\* fs.go 67-72: the callback of WalkWithDepth returns filepath.SkipDir
SkipsDir(maxDepth, p) ==
    /\ maxDepth > 0
    /\ Rel(p) # <<".">>
    /\ depthCount(Rel(p)) > maxDepth

\* WalkDir after SkipDir came back for a non-directory: the remaining entries
\* of the containing directory are skipped
RECURSIVE SkipSiblings(_, _)
SkipSiblings(todo, p) ==
    IF todo # <<>> /\ Len(Head(todo)) = Len(p) /\ Front(Head(todo)) = Front(p)
    THEN SkipSiblings(Tail(todo), p)
    ELSE todo

InitWalk ==
    /\ opts \in { [Tree |-> t, Depth |-> n] : t \in Trees, n \in 0..MaxDepthOpt }
    /\ walker = [pc |-> "walk", todo |-> << <<>> >>, visited |-> <<>>, err |-> ""]
    /\ cancelled = FALSE
    /\ ctl = "idle"
    /\ ret = ""
    /\ ctlErr = ""
    /\ loaded = [ok |-> FALSE, patterns |-> <<>>, hasInsensitive |-> FALSE]
    /\ fileCh = [buf |-> <<>>, closed |-> FALSE]
    /\ walkErr = [buf |-> <<>>, closed |-> FALSE]
    /\ cur = NoTask
    /\ wg = 0
    /\ assigned = {}
    /\ scanning = {}
    /\ counters = [found |-> 0, processed |-> 0, errorsC |-> 0, matches |-> 0]
    /\ results = NoResults
    /\ opened = {}
    /\ openedLate = {}
    /\ dest = NoDest
    /\ sink = SinkIdle
    /\ app = AppIdle
    /\ mr = MRIdle

walkOther ==
    <<opts, cancelled, ctl, ret, ctlErr, loaded, fileCh, walkErr, cur, wg, assigned,
      scanning, counters, results, opened, openedLate, dest, mr, sink, app>>

\* fs.go 60-74: WalkDir comes to its next entry and calls the callback
WalkEntry ==
    /\ walker.pc = "walk" /\ walker.todo # <<>>
    /\ LET p == Head(walker.todo) IN
       IF cancelled
       THEN walker' = [walker EXCEPT !.pc = "done", !.err = "ctx"]
       ELSE IF SkipsDir(opts.Depth, p)
       THEN walker' = [walker EXCEPT !.todo =
                          IF IsDir(p) THEN Tail(walker.todo)
                          ELSE SkipSiblings(Tail(walker.todo), p)]
       ELSE walker' = [walker EXCEPT
                          !.visited = Append(walker.visited, p),
                          !.todo = IF IsDir(p)
                                   THEN ReadDir(opts.Tree, p) \o Tail(walker.todo)
                                   ELSE Tail(walker.todo)]
    /\ UNCHANGED walkOther

\* WalkDir has walked the tree: WalkWithDepth returns nil
WalkReturn ==
    /\ walker.pc = "walk" /\ walker.todo = <<>>
    /\ walker' = [walker EXCEPT !.pc = "done"]
    /\ UNCHANGED walkOther

NextWalk == WalkEntry \/ WalkReturn \/ Cancel

SpecWalk == InitWalk /\ [][NextWalk]_vars

Visited == { walker.visited[i] : i \in 1..Len(walker.visited) }
WalkedAll == walker.pc = "done" /\ walker.err = ""

\* the files nested two directory levels below the root
DeepFiles(t) == { p \in t : Len(p) = 3 /\ ~IsDir(p) }

\* C19: with maxDepth = 1 no file nested two directory levels below the root
\* is ever passed to the visit callback; with maxDepth = 0 a walk that ran to
\* its end has passed every such file.
C19_DepthPruning ==
    /\ opts.Depth = 1 => Visited \cap DeepFiles(opts.Tree) = {}
    /\ (opts.Depth = 0 /\ WalkedAll) => DeepFiles(opts.Tree) \subseteq Visited

\* two walks of a tree with a file two levels down have ended: the bounded one
\* passed the directory above and the unlimited one the file
C19_Witness ==
    /\ WalkedAll /\ DeepFiles(opts.Tree) # {}
    /\ \/ opts.Depth = 1 /\ <<DirName>> \in Visited /\ <<DirName, DirName>> \notin Visited
       \/ opts.Depth = 0 /\ DeepFiles(opts.Tree) \subseteq Visited

\* the number of path separators in the entry's path relative to the root
Separators(p) == Count(Rel(p), PathSeparator)

\* the entries below p
Subtree(t, p) == { q \in t : Len(q) > Len(p) /\ SubSeq(q, 1, Len(p)) = p }

\* C20 as stated: the depth of an entry is the number of path separators in
\* its relative path; with maxDepth > 0 a walk that ran to its end has visited
\* exactly the entries of depth at most maxDepth, and nothing below an entry
\* that exceeds it.
C20_DepthIsSeparatorCount ==
    (opts.Depth > 0 /\ WalkedAll) =>
        \A p \in opts.Tree :
            /\ (p \in Visited) = (Separators(p) <= opts.Depth)
            /\ Separators(p) > opts.Depth => Subtree(opts.Tree, p) \cap Visited = {}

\* C20: the depth of an entry is the number of names in its relative path (the
\* number of separators plus one; the root is exempt); with maxDepth > 0 a
\* walk that ran to its end has visited the root and exactly the entries of
\* depth at most maxDepth, and nothing below an entry that exceeds it.
C20_DepthIsSeparatorsPlusOne ==
    (opts.Depth > 0 /\ WalkedAll) =>
        /\ <<>> \in Visited
        /\ \A p \in opts.Tree :
            /\ (p \in Visited) = (Separators(p) + 1 <= opts.Depth)
            /\ Separators(p) + 1 > opts.Depth => Subtree(opts.Tree, p) \cap Visited = {}

\* a bounded walk has ended that pruned a directory with entries below it and
\* visited an entry at the bound
C20_Witness ==
    /\ opts.Depth = 2 /\ WalkedAll
    /\ <<DirName, DirName>> \in Visited
    /\ <<DirName, DirName, DirName>> \in opts.Tree
    /\ <<DirName, DirName, DirName>> \notin Visited
    /\ <<DirName, DirName, "c">> \in opts.Tree

(***************************************************************************)
(* Archives (fs.go 78-109, stats.go 229-237, 316-342): the scan of a root  *)
(* that holds an archive and a regular file.  An archive is the sequence   *)
(* of its inner entries in the order iofs.WalkDir meets them; the walker   *)
(* record carries WalkArchive's position (inner), its count, whether the   *)
(* warning was logged, and the inner entries whose task was sent.          *)
(***************************************************************************)
MaxInner == 3
\* const maxArchiveFiles = 10000
maxArchiveFiles == 2

ExtTxt == <<".","t","x","t">>
ExtBin == <<".","b","i","n">>

\* an inner entry: a file with an allowed or a blacklisted extension, or a
\* directory (an entry iofs.WalkDir reports with an error takes the same branch)
ExtZip == <<".", "z", "i", "p">>
InnerKinds ==
    { [kind |-> "file", ext |-> ExtTxt, content |-> ContentA],
      [kind |-> "file", ext |-> ExtBin, content |-> ContentB],
      [kind |-> "dir", ext |-> <<>>, content |-> <<>>] }
InnerLists == UNION { [1..n -> InnerKinds] : n \in 0..MaxInner }

ArchiveEntry(id, inner, openFails) ==
    [id |-> id, kind |-> "archive", content |-> <<>>, fault |-> "none", errAt |-> 0,
     inner |-> inner, openFails |-> openFails, ext |-> ExtZip]
PlainEntry(id) ==
    [id |-> id, kind |-> "file", content |-> ContentA, fault |-> "none", errAt |-> 0,
     inner |-> <<>>, openFails |-> FALSE, ext |-> ExtTxt]

ArchiveCorpora ==
    { << <<ArchiveEntry(1, l, FALSE), PlainEntry(2)>> >> : l \in InnerLists }
      \cup { << <<ArchiveEntry(1, <<>>, TRUE), PlainEntry(2)>> >> }

ArchiveOptsSet ==
    { [FailFast |-> FALSE, Threads |-> th, SaveFull |-> FALSE,
       PatternFile |-> TestPatternFile, Roots |-> c, Archives |-> a,
       Whitelist |-> <<>>, Blacklist |-> <<ExtBin>>,
       whMap |-> toSet(<<>>), blMap |-> toSet(<<ExtBin>>)] :
        th \in 1..MaxThreads, c \in ArchiveCorpora, a \in BOOLEAN }

\* the state Scan starts from, the walker with WalkArchive's locals
ArchiveIdle ==
    /\ walker = [pc |-> "idle", root |-> 1, entry |-> 1,
                 inner |-> 1, count |-> 0, warned |-> FALSE, sent |-> {}]
    /\ cancelled = FALSE
    /\ ctl = "idle"
    /\ ret = ""
    /\ ctlErr = ""
    /\ loaded = [ok |-> FALSE, patterns |-> <<>>, hasInsensitive |-> FALSE]
    /\ fileCh = [buf |-> <<>>, closed |-> FALSE]
    /\ walkErr = [buf |-> <<>>, closed |-> FALSE]
    /\ cur = NoTask
    /\ wg = 0
    /\ assigned = {}
    /\ scanning = {}
    /\ counters = [found |-> 0, processed |-> 0, errorsC |-> 0, matches |-> 0]
    /\ results = NoResults
    /\ opened = {}
    /\ openedLate = {}
    /\ dest = NoDest
    /\ sink = SinkIdle
    /\ app = AppIdle
    /\ mr = MRIdle

InitArchive == opts \in ArchiveOptsSet /\ ArchiveIdle

ArchiveTask(id, k) == [path |-> id, innerPath |-> k, isArchive |-> TRUE]
ArchiveTasks == { ArchiveTask(i, k) : i \in Ids, k \in 1..MaxInner }

CurEntry == opts.Roots[walker.root][walker.entry]
WalkArchiveReturn(w) == [w EXCEPT !.pc = "entry", !.entry = w.entry + 1]

archiveOther ==
    <<opts, cancelled, ctl, ret, ctlErr, loaded, walkErr, cur, wg, assigned, scanning,
      results, opened, openedLate, dest, mr, sink, app>>

\* the ceiling test written `count > maxArchiveFiles`
CeilingReached_Late(count) == count > maxArchiveFiles

\* fs.go 96: count >= maxArchiveFiles
CeilingReached(count) == count >= maxArchiveFiles

\* fs.go 79-88: archives.FileSystem; on its error the log line and the return
WalkArchiveOpen ==
    /\ walker.pc = "archive" /\ Alive
    /\ walker' = IF CurEntry.openFails THEN WalkArchiveReturn(walker)
                 ELSE [walker EXCEPT !.pc = "inner", !.inner = 1, !.count = 0]
    /\ UNCHANGED <<fileCh, counters>>
    /\ UNCHANGED archiveOther

\* fs.go 89-104: the callback of iofs.WalkDir on the next inner entry, up to
\* found.Add(1)
WalkArchiveEntry ==
    /\ walker.pc = "inner" /\ Alive
    /\ IF walker.inner > Len(CurEntry.inner) \/ cancelled
       THEN walker' = WalkArchiveReturn(walker) /\ UNCHANGED counters
       ELSE LET x == CurEntry.inner[walker.inner] IN
            IF x.kind = "dir"
            THEN walker' = [walker EXCEPT !.inner = walker.inner + 1]
                 /\ UNCHANGED counters
            ELSE IF CeilingReached(walker.count)
            THEN walker' = [WalkArchiveReturn(walker) EXCEPT !.warned = TRUE]
                 /\ UNCHANGED counters
            ELSE IF ~allowedExt(opts, x.ext)
            THEN walker' = [walker EXCEPT !.inner = walker.inner + 1]
                 /\ UNCHANGED counters
            ELSE /\ counters' = [counters EXCEPT !.found = counters.found + 1]
                 /\ walker' = [walker EXCEPT !.pc = "send"]
    /\ UNCHANGED fileCh
    /\ UNCHANGED archiveOther

\* stats.go 231-233 and fs.go 105-107: case fileCh <- t: found.Add(1); then
\* count++; a send on a closed channel panics
WalkArchiveSend ==
    /\ walker.pc = "send" /\ Alive
    /\ fileCh.closed \/ Len(fileCh.buf) < QueueCap
    /\ IF fileCh.closed
       THEN walker' = [walker EXCEPT !.pc = "panicked"] /\ UNCHANGED <<fileCh, counters>>
       ELSE /\ fileCh' = [fileCh EXCEPT
                            !.buf = Append(fileCh.buf, ArchiveTask(CurEntry.id, walker.inner))]
            /\ counters' = [counters EXCEPT !.found = counters.found + 1]
            /\ walker' = [walker EXCEPT !.pc = "inner", !.inner = walker.inner + 1,
                                        !.count = walker.count + 1,
                                        !.sent = walker.sent \cup {walker.inner}]
    /\ UNCHANGED archiveOther

\* stats.go 234 and fs.go 106-107: case <-ctx.Done(): the task is dropped; count++
WalkArchiveSendCancelled ==
    /\ walker.pc = "send" /\ Alive
    /\ cancelled
    /\ walker' = [walker EXCEPT !.pc = "inner", !.inner = walker.inner + 1,
                                !.count = walker.count + 1]
    /\ UNCHANGED <<fileCh, counters>>
    /\ UNCHANGED archiveOther

\* 316-342: scanArchiveFile: the archive and the inner file are opened, then
\* matchReader runs to its return
ScanArchiveFile(o, l, e, k) ==
    IF e.openFails \/ k > Len(e.inner) \/ e.inner[k].kind # "file"
    THEN [MRIdle EXCEPT !.pc = "done", !.results = <<ErrorResult("open")>>,
                        !.errorCount = 1]
    ELSE MRRun(MRInit(e.inner[k].content, l.patterns, l.hasInsensitive, o.SaveFull,
                      FolderSet(o), "none", 0))

\* 191-192: the worker scans an archive task; 185: wg.Done
WorkerScanArchive(t) ==
    /\ t \in scanning /\ Alive
    /\ t.isArchive
    /\ \E r \in { ScanArchiveFile(opts, loaded, EntryOf(opts, t.path), t.innerPath) } :
           /\ results' = [results EXCEPT ![t.path] = results[t.path] \o r.results]
           /\ counters' = [counters EXCEPT !.matches = counters.matches + r.matchCount,
                                           !.errorsC = counters.errorsC + r.errorCount]
           /\ dest' = IF r.final.exists THEN [dest EXCEPT ![t.path] = r.final] ELSE dest
    /\ scanning' = scanning \ {t}
    /\ wg' = wg - 1
    /\ UNCHANGED <<sink, app, opts, cancelled, ctl, ret, ctlErr, loaded, fileCh, walkErr, cur,
                   walker,
                   assigned, opened, openedLate, mr>>

NextArchive ==
    \/ Next
    \/ WalkArchiveOpen
    \/ WalkArchiveEntry
    \/ WalkArchiveSend
    \/ WalkArchiveSendCancelled
    \/ \E t \in ArchiveTasks : WorkerBegin(t)
    \/ \E t \in ArchiveTasks : WorkerScanArchive(t)

SpecArchive == InitArchive /\ [][NextArchive]_vars

\* the inner entries WalkArchive would make a task of: files of an allowed
\* extension
Qualifying(o, e) ==
    { k \in 1..Len(e.inner) : e.inner[k].kind = "file" /\ allowedExt(o, e.inner[k].ext) }

TheArchive == opts.Roots[1][1]
\* WalkArchive has returned for the archive
ArchiveWalked ==
    \/ walker.pc = "done"
    \/ walker.root > 1
    \/ walker.pc \in {"entry", "push"} /\ walker.entry > 1

\* C21: WalkArchive sends at most maxArchiveFiles tasks for an archive; when
\* the archive holds more qualifying entries its traversal ends with the
\* warning logged after exactly maxArchiveFiles tasks; no error is counted,
\* delivered to the callback or returned by Scan because of it; and when Scan
\* returns nil every task sent has been processed.
C21_ArchiveCeiling ==
    opts.Archives =>
        /\ Cardinality(walker.sent) <= maxArchiveFiles
        /\ walker.sent \subseteq Qualifying(opts, TheArchive)
        /\ (ArchiveWalked /\ ~cancelled /\ ~TheArchive.openFails
              /\ Cardinality(Qualifying(opts, TheArchive)) > maxArchiveFiles) =>
                 (walker.warned /\ Cardinality(walker.sent) = maxArchiveFiles)
        /\ counters.errorsC = 0 /\ SinkErrors = 0
        /\ ret \in {"", "nil", "ctxErr"}
        /\ (ReturnedNil /\ ~cancelled) =>
              counters.processed = Cardinality(walker.sent) + 1

\* an archive with more qualifying entries than the ceiling was walked, the
\* warning logged, and Scan returned nil with the tasks sent all processed
C21_Witness ==
    /\ opts.Archives /\ ReturnedNil /\ ~cancelled
    /\ Cardinality(Qualifying(opts, TheArchive)) > maxArchiveFiles
    /\ walker.warned
    /\ counters.processed = maxArchiveFiles + 1

\* where a task is: in the queue, with the controller, with a worker that has
\* not begun, with a worker that scans it, or processed
InQueue == { fileCh.buf[i] : i \in 1..Len(fileCh.buf) }
Dispatched == assigned \cup scanning
PlacesOf(t) ==
    { pl \in {"queue", "controller", "assigned", "scanning", "processed"} :
        \/ pl = "queue" /\ t \in InQueue
        \/ pl = "controller" /\ cur = t
        \/ pl = "assigned" /\ t \in assigned
        \/ pl = "scanning" /\ t \in scanning
        \/ pl = "processed" /\ t.path \in opened }

ProducerBlocked ==
    walker.pc = "push" /\ ~fileCh.closed /\ Len(fileCh.buf) >= QueueCap

\* C23: at every moment at most opts.Threads tasks are with the workers and
\* at most QueueCap tasks are queued; and a producer that finds the queue full
\* stays at its push: it gets past it only after a task was dequeued or the
\* token was cancelled.
C23_BoundedPoolAndQueue ==
    /\ [](/\ Cardinality(Dispatched) <= opts.Threads
          /\ Cardinality(scanning) <= opts.Threads
          /\ Len(fileCh.buf) <= QueueCap)
    /\ [][(ProducerBlocked /\ ~cancelled) => walker'.pc = "push"]_vars

\* the producer is blocked on a full queue while a worker scans
C23_Witness ==
    /\ ProducerBlocked /\ ~cancelled
    /\ Len(fileCh.buf) = QueueCap
    /\ ctl = "select"

(***************************************************************************)
(* main's Action (cmd/main.go 140-174): Validate, Prepare, Scan with the   *)
(* default sink, the summary.  ctl is "main" until Validate has passed;    *)
(* Scan then runs from "idle" to "returned".                               *)
(***************************************************************************)
NoPath == <<>>
PatternPath == <<"p">>
FolderPath == <<"x">>

\* roots of one directory with two entries
MainCorpora == { c \in Corpora : Len(c) = 1 /\ Len(c[1]) = MaxEntries }

\* opts.PatternFile is the path given on the command line (PatternPath or
\* none) together with the file found there
MainOptsSet ==
    { [FailFast |-> ff, Threads |-> 1, SaveFull |-> sf, PatternFile |-> pf,
       Roots |-> c, PatternFilePath |-> pp, SaveFullFolder |-> fo] :
        ff \in BOOLEAN, sf \in BOOLEAN, pf \in PatternFiles, c \in MainCorpora,
        pp \in {NoPath, PatternPath}, fo \in {NoPath, FolderPath} }

\* os.Open("") fails: without a path there is no file to load
MainOpts ==
    { o \in MainOptsSet : o.PatternFilePath = NoPath => ~o.PatternFile.exists }

InitMain ==
    /\ opts \in MainOpts
    /\ ctl = "main"
    /\ cancelled = FALSE
    /\ ret = ""
    /\ ctlErr = ""
    /\ loaded = [ok |-> FALSE, patterns |-> <<>>, hasInsensitive |-> FALSE]
    /\ fileCh = [buf |-> <<>>, closed |-> FALSE]
    /\ walkErr = [buf |-> <<>>, closed |-> FALSE]
    /\ cur = NoTask
    /\ wg = 0
    /\ walker = [pc |-> "idle", root |-> 1, entry |-> 1]
    /\ assigned = {}
    /\ scanning = {}
    /\ counters = [found |-> 0, processed |-> 0, errorsC |-> 0, matches |-> 0]
    /\ results = NoResults
    /\ opened = {}
    /\ openedLate = {}
    /\ dest = NoDest
    /\ mr = MRIdle
    /\ sink = SinkIdle
    /\ app = [AppIdle EXCEPT !.pc = "validate"]

\* options.go 28-36: Validate
Validate(o) ==
    IF o.PatternFilePath = NoPath THEN "pattern-file is required"
    ELSE IF o.SaveFull /\ o.SaveFullFolder = NoPath
    THEN "save-full-folder must be set when --save-full is used"
    ELSE "nil"

\* the AppStats main hands to NewResultSink: the sink adds to Errors and
\* Matches (stats.go 117, 130); nothing writes FilesFound or FilesProcessed
AppStats ==
    [FilesFound |-> 0, FilesProcessed |-> 0, Matches |-> SinkMatches, Errors |-> SinkErrors]

mainOther ==
    <<opts, cancelled, ret, ctlErr, loaded, fileCh, walkErr, cur, wg, walker, assigned,
      scanning, counters, results, opened, openedLate, dest, mr, sink>>

\* main.go 154-162: Validate; on its error cli.Exit(err, 1); else Prepare and
\* the call of Scan
MainValidate ==
    /\ app.pc = "validate"
    /\ IF Validate(opts) # "nil"
       THEN app' = [app EXCEPT !.pc = "exited", !.exit = 1] /\ UNCHANGED ctl
       ELSE app' = [app EXCEPT !.pc = "scan"] /\ ctl' = "idle"
    /\ UNCHANGED mainOther

\* main.go 162-174: Scan has returned; its error is logged; the summary is
\* printed; return nil
MainSummary ==
    /\ app.pc = "scan" /\ ctl = "returned"
    /\ app' = [app EXCEPT !.pc = "finished", !.exit = 0,
                          !.summary = << [scanned |-> AppStats.FilesProcessed,
                                          matches |-> AppStats.Matches,
                                          errors  |-> AppStats.Errors] >>]
    /\ UNCHANGED ctl
    /\ UNCHANGED mainOther

NextMain == Next \/ MainValidate \/ MainSummary

SpecMain == InitMain /\ [][NextMain]_vars

SummaryPrinted == app.summary # <<>>

\* a configuration error: no or a bad pattern file, an invalid regex, or
\* --save-full without its folder
ConfigError(o) ==
    \/ o.PatternFilePath = NoPath
    \/ o.PatternFile \in InvalidPatternFiles
    \/ o.SaveFull /\ o.SaveFullFolder = NoPath

\* C24: when main has ended after a scan that stopped gracefully (nil, the
\* fail-fast error, or cancellation) the summary was printed; with a
\* configuration error the summary is never printed and the walker never
\* starts.
C24_SummaryOnGracefulStopOnly ==
    /\ (app.pc = "finished" /\ ~ConfigError(opts)) => SummaryPrinted
    /\ ConfigError(opts) => (~SummaryPrinted /\ walker.pc = "idle")

\* C26: when main's scan has ended, the AppStats handed to the sink holds the
\* scan's counters (FilesFound the tasks produced, FilesProcessed the tasks
\* the workers processed), and the summary's files-scanned figure is that
\* processed count.
C26_AppStatsHoldsScanCounters ==
    app.pc = "finished" =>
        /\ AppStats.FilesFound = counters.found
        /\ AppStats.FilesProcessed = counters.processed
        /\ app.summary[1].scanned = counters.processed

(***************************************************************************)
(* NewResultSink (stats.go 110-165): the closure the workers call with     *)
(* every MatchResult, run by several workers at once.  The options are the *)
(* two destinations; the build fixes os.PathSeparator.                     *)
(***************************************************************************)
Callers == 1..MaxThreads

Nl == "\n"
LineX == <<"x">>
FolderOut == <<"o">>
FileM == <<"m">>
TxtSuffix == <<".", "t", "x", "t">>
PathSeparators == {"/", "\\"}

\* fs.go 118-124: every character the Replacer knows becomes "_"; of the two
\* separators only the build's own is among them
Replaced(sep) == {sep, ":", "*", "?", "\"", "<", ">", "|"}
Sanitize(sep, s) == [i \in 1..Len(s) |-> IF s[i] \in Replaced(sep) THEN "_" ELSE s[i]]

\* filepath.Join: the elements joined by the separator and cleaned; Clean turns
\* every slash into the separator (FromSlash, a no-op where they are the same)
FromSlash(sep, s) == [i \in 1..Len(s) |-> IF s[i] = "/" THEN sep ELSE s[i]]
Join(sep, folder, name) == FromSlash(sep, folder \o <<sep>> \o name)

\* the pattern descriptions the results carry, and their lines
SinkPatterns == {<<>>, <<"a", "/", "b">>, <<"a", "\\", "b">>}
SinkLines == {<<>>, LineX, LineX \o <<Nl>>}
NoRes == [Error |-> FALSE, Matched |-> FALSE, Line |-> <<>>, Pattern |-> <<>>]
SinkResults ==
    {[NoRes EXCEPT !.Error = TRUE], NoRes}
    \cup {[Error |-> FALSE, Matched |-> TRUE, Line |-> l, Pattern |-> p] :
            l \in SinkLines, p \in SinkPatterns}

\* --save-matches-file: none, a file of its own, or the very file the folder
\* holds for a pattern; --save-matches-folder: none or a folder
SinkFiles(sep) == {<<>>, FileM, Join(sep, FolderOut, <<"a", "_", "b">> \o TxtSuffix)}
SinkOptsSet ==
    UNION { { [SaveMatchesFile |-> f, SaveMatchesByPatternFolder |-> d,
               PathSeparator |-> sep] : d \in {<<>>, FolderOut}, f \in SinkFiles(sep) } :
            sep \in PathSeparators }

NoCall == [pc |-> "idle", res |-> NoRes, f |-> FALSE, path |-> <<>>]

InitSink ==
    /\ opts \in SinkOptsSet
    /\ ctl = "sink"
    /\ cancelled = FALSE
    /\ ret = ""
    /\ ctlErr = ""
    /\ loaded = [ok |-> FALSE, patterns |-> <<>>, hasInsensitive |-> FALSE]
    /\ fileCh = [buf |-> <<>>, closed |-> FALSE]
    /\ walkErr = [buf |-> <<>>, closed |-> FALSE]
    /\ cur = NoTask
    /\ wg = 0
    /\ walker = [pc |-> "idle", root |-> 1, entry |-> 1]
    /\ assigned = {}
    /\ scanning = {}
    /\ counters = [found |-> 0, processed |-> 0, errorsC |-> 0, matches |-> 0]
    /\ results = NoResults
    /\ opened = {}
    /\ openedLate = {}
    /\ dest = NoDest
    /\ mr = MRIdle
    /\ sink = [SinkIdle EXCEPT !.calls = [i \in Callers |-> NoCall]]
    /\ app = AppIdle

sinkOther ==
    <<opts, cancelled, ctl, ret, ctlErr, loaded, fileCh, walkErr, cur, wg, walker,
      assigned, scanning, counters, results, opened, openedLate, dest, mr, app>>

\* stats.go 133, 148: the conditions of the two file sections
WantsAggregate(o, res) == o.SaveMatchesFile # <<>> /\ res.Line # <<>>
WantsPattern(o, res) ==
    o.SaveMatchesByPatternFolder # <<>> /\ res.Line # <<>> /\ res.Pattern # <<>>

\* stats.go 150-151: the per-pattern file of a result
PatternFileOf(o, res) ==
    Join(o.PathSeparator, o.SaveMatchesByPatternFolder,
         Sanitize(o.PathSeparator, res.Pattern) \o TxtSuffix)

\* os.OpenFile with O_CREATE: it creates the file, never its folder.  Only
\* the current folder and the folder MkdirAll made (149) exist.
RECURSIVE LastIndex(_, _)
LastIndex(s, c) ==
    IF s = <<>> THEN 0
    ELSE IF s[Len(s)] = c THEN Len(s)
    ELSE LastIndex(SubSeq(s, 1, Len(s) - 1), c)
Dir(sep, path) ==
    IF LastIndex(path, sep) = 0 THEN <<>> ELSE SubSeq(path, 1, LastIndex(path, sep) - 1)
OpenFileOk(o, path, madeFolder) ==
    \/ Dir(o.PathSeparator, path) = <<>>
    \/ madeFolder /\ Dir(o.PathSeparator, path) = o.SaveMatchesByPatternFolder

\* stats.go 136-140, 155-159: the line, with a newline unless it ends in one
HasNewlineSuffix(l) == l # <<>> /\ l[Len(l)] = Nl
Written(l) == IF HasNewlineSuffix(l) THEN l ELSE l \o <<Nl>>

SetCall(i, c) == [sink.calls EXCEPT ![i] = c]

\* stats.go 115-131: a worker calls the closure with a result; an error is
\* counted and nothing else happens, a result that is no match is dropped,
\* a match is counted
SinkEnter(i, res) ==
    /\ ctl = "sink"
    /\ sink.calls[i].pc = "idle"
    /\ IF res.Error
       THEN sink' = [sink EXCEPT !.Errors = @ + 1,
                                 !.calls = SetCall(i, [NoCall EXCEPT !.pc = "done", !.res = res])]
       ELSE IF ~res.Matched
       THEN sink' = [sink EXCEPT !.calls = SetCall(i, [NoCall EXCEPT !.pc = "done", !.res = res])]
       ELSE sink' = [sink EXCEPT !.Matches = @ + 1,
                                 !.calls = SetCall(i, [NoCall EXCEPT !.pc = "agg", !.res = res])]
    /\ UNCHANGED sinkOther

\* stats.go 133: the aggregate section is skipped
SinkAggSkip(i) ==
    /\ sink.calls[i].pc = "agg"
    /\ ~WantsAggregate(opts, sink.calls[i].res)
    /\ sink' = [sink EXCEPT !.calls = SetCall(i, [sink.calls[i] EXCEPT !.pc = "pat"])]
    /\ UNCHANGED sinkOther

\* stats.go 134-135: matchesFileMu.Lock(), which waits for its holder, and
\* os.OpenFile
SinkAggLock(i) ==
    /\ sink.calls[i].pc = "agg"
    /\ WantsAggregate(opts, sink.calls[i].res)
    /\ sink.matchesFileMu = 0
    /\ sink' = [sink EXCEPT
                  !.matchesFileMu = i,
                  !.calls = SetCall(i, [sink.calls[i] EXCEPT
                      !.pc = "aggWrite",
                      !.path = opts.SaveMatchesFile,
                      !.f = OpenFileOk(opts, opts.SaveMatchesFile,
                                       \E j \in Callers : sink.calls[j].pc
                                           \in {"patWrite", "patClose", "done"}
                                           /\ WantsPattern(opts, sink.calls[j].res))])]
    /\ UNCHANGED sinkOther

\* stats.go 135-140, 154-159: io.WriteString, when the file was opened
SinkWrite(i) ==
    /\ sink.calls[i].pc \in {"aggWrite", "patWrite"}
    /\ sink' = [sink EXCEPT
                  !.writes = IF sink.calls[i].f
                             THEN Append(@, [path |-> sink.calls[i].path,
                                             text |-> Written(sink.calls[i].res.Line),
                                             by |-> i])
                             ELSE @,
                  !.calls = SetCall(i, [sink.calls[i] EXCEPT
                      !.pc = IF @ = "aggWrite" THEN "aggClose" ELSE "patClose"])]
    /\ UNCHANGED sinkOther

\* stats.go 141-143: f.Close() and matchesFileMu.Unlock()
SinkAggUnlock(i) ==
    /\ sink.calls[i].pc = "aggClose"
    /\ sink' = [sink EXCEPT
                  !.matchesFileMu = 0,
                  !.calls = SetCall(i, [sink.calls[i] EXCEPT
                      !.pc = "pat", !.f = FALSE, !.path = <<>>])]
    /\ UNCHANGED sinkOther

\* stats.go 148: the per-pattern section is skipped
SinkPatSkip(i) ==
    /\ sink.calls[i].pc = "pat"
    /\ ~WantsPattern(opts, sink.calls[i].res)
    /\ sink' = [sink EXCEPT !.calls = SetCall(i, [sink.calls[i] EXCEPT !.pc = "done"])]
    /\ UNCHANGED sinkOther

\* stats.go 149-154: MkdirAll, the path, LoadOrStore of the path's mutex, its
\* Lock(), which waits for its holder, and os.OpenFile
SinkPatLock(i) ==
    /\ sink.calls[i].pc = "pat"
    /\ WantsPattern(opts, sink.calls[i].res)
    /\ \E p \in { PatternFileOf(opts, sink.calls[i].res) } :
         /\ \A j \in Callers : <<p, j>> \notin sink.patHeld
         /\ sink' = [sink EXCEPT
                       !.registry = @ \cup {p},
                       !.patHeld = @ \cup {<<p, i>>},
                       !.calls = SetCall(i, [sink.calls[i] EXCEPT
                           !.pc = "patWrite", !.path = p,
                           !.f = OpenFileOk(opts, p, TRUE)])]
    /\ UNCHANGED sinkOther

\* stats.go 160-162: f.Close() and mu.Unlock()
SinkPatUnlock(i) ==
    /\ sink.calls[i].pc = "patClose"
    /\ sink' = [sink EXCEPT
                  !.patHeld = @ \ {<<sink.calls[i].path, i>>},
                  !.calls = SetCall(i, [sink.calls[i] EXCEPT
                      !.pc = "done", !.f = FALSE, !.path = <<>>])]
    /\ UNCHANGED sinkOther

NextSink ==
    \/ \E i \in Callers, res \in SinkResults : SinkEnter(i, res)
    \/ \E i \in Callers : SinkAggSkip(i)
    \/ \E i \in Callers : SinkAggLock(i)
    \/ \E i \in Callers : SinkWrite(i)
    \/ \E i \in Callers : SinkAggUnlock(i)
    \/ \E i \in Callers : SinkPatSkip(i)
    \/ \E i \in Callers : SinkPatLock(i)
    \/ \E i \in Callers : SinkPatUnlock(i)

SpecSink == InitSink /\ [][NextSink]_vars

\* caller i has destination file p open for appending
Appending(i, p) ==
    sink.calls[i].pc \in {"aggWrite", "aggClose", "patWrite", "patClose"}
    /\ sink.calls[i].f /\ sink.calls[i].path = p

\* the destination caller i waits for, when it waits for a lock
WaitsFor(i) ==
    IF sink.calls[i].pc = "agg" /\ WantsAggregate(opts, sink.calls[i].res)
       /\ sink.matchesFileMu # 0
    THEN {opts.SaveMatchesFile}
    ELSE IF sink.calls[i].pc = "pat" /\ WantsPattern(opts, sink.calls[i].res)
            /\ \E j \in Callers : <<PatternFileOf(opts, sink.calls[i].res), j>> \in sink.patHeld
    THEN {PatternFileOf(opts, sink.calls[i].res)}
    ELSE {}

SinkPaths == {opts.SaveMatchesFile} \cup sink.registry

\* C25: for every destination path at most one invocation of the sink at a
\* time has the file open for appending, and an invocation waits only for an
\* invocation that is at work on the same destination file.
C25_PerDestinationSerialised ==
    /\ \A p \in SinkPaths : Cardinality({i \in Callers : Appending(i, p)}) <= 1
    /\ \A i \in Callers : \A p \in WaitsFor(i) :
           \E j \in Callers \ {i} :
               sink.calls[j].pc \in {"aggWrite", "aggClose", "patWrite", "patClose"}
               /\ sink.calls[j].path = p

\* the writes caller i made to the file at path p
WritesOf(i, p) ==
    { k \in 1..Len(sink.writes) : sink.writes[k].by = i /\ sink.writes[k].path = p }

\* the text ends in exactly one newline and is the line before it
OneNewline(text, line) ==
    /\ HasNewlineSuffix(text)
    /\ ~HasNewlineSuffix(SubSeq(text, 1, Len(text) - 1))
    /\ SubSeq(text, 1, Len(text) - 1) = IF HasNewlineSuffix(line)
                                         THEN SubSeq(line, 1, Len(line) - 1) ELSE line

\* a result the sink has to write to both destinations
Writable(res) == res.Matched /\ ~res.Error /\ res.Line # <<>> /\ res.Pattern # <<>>
BothDestinations == opts.SaveMatchesFile # <<>> /\ opts.SaveMatchesByPatternFolder # <<>>

\* the file of the folder named Sanitize(pattern) + ".txt"
NamedFile(res) ==
    opts.SaveMatchesByPatternFolder \o <<opts.PathSeparator>>
        \o Sanitize(opts.PathSeparator, res.Pattern) \o TxtSuffix

Returned(i) == sink.calls[i].pc = "done"

\* C27: once the sink has returned from a matched result without error, with
\* a line and a pattern description, the line was appended exactly once to the
\* aggregate file and exactly once to the file Sanitize(pattern) + ".txt" of
\* the folder, each time ending in exactly one newline; a result with an
\* error was only counted in Errors and nothing was written for it.
C27_LineOnceInEachFile ==
    /\ \A i \in Callers :
         (Returned(i) /\ Writable(sink.calls[i].res) /\ BothDestinations) =>
             /\ Cardinality(WritesOf(i, opts.SaveMatchesFile)) = 1
             /\ Cardinality(WritesOf(i, NamedFile(sink.calls[i].res))) = 1
             /\ \A k \in 1..Len(sink.writes) :
                    sink.writes[k].by = i =>
                        /\ sink.writes[k].path
                               \in {opts.SaveMatchesFile, NamedFile(sink.calls[i].res)}
                        /\ OneNewline(sink.writes[k].text, sink.calls[i].res.Line)
    /\ \A i \in Callers :
         (Returned(i) /\ sink.calls[i].res.Error) =>
             \A k \in 1..Len(sink.writes) : sink.writes[k].by # i
    /\ sink.Errors = Cardinality({i \in Callers : Returned(i) /\ sink.calls[i].res.Error})

\* the characters no file name may hold
Forbidden == {"\\", "/", ":", "*", "?", "\"", "<", ">", "|"}

\* C28: whatever string Sanitize was called with, its output holds none of
\* the characters \ / : * ? " < > |.
C28_SanitizeLeavesNoForbidden ==
    \A i \in Callers :
        sink.calls[i].pc \in {"patWrite", "patClose"} =>
            \A k \in 1..Len(sink.calls[i].res.Pattern) :
                Sanitize(opts.PathSeparator, sink.calls[i].res.Pattern)[k] \notin Forbidden

\* C29: with FailFast, once the walker has reported a traversal error, no
\* step of the scan pushes a task to the queue and the walker visits no entry
\* any more: the current root's walk has stopped and no later root is walked.
C29_FailFastWalkStopsAllRoots ==
    [][(opts.FailFast /\ WalkErrorReported) =>
           /\ Len(fileCh'.buf) <= Len(fileCh.buf)
           /\ walker'.pc \notin {"entry", "push"}]_vars

\* C30: in save-full mode the first matching line moves the temporary file to
\* its final path and emits the single match, and from then on matchReader
\* reads no further line from the source and tests none against the patterns.
C30_SaveFullStopsAtFirstMatch ==
    /\ []((mr.saveFull /\ mr.tmpCreated /\ MatchedOf(mr.results) # <<>>) =>
              /\ mr.final.exists /\ ~mr.tmpOpen
              /\ Len(MatchedOf(mr.results)) = 1)
    /\ [][(mr.saveFull /\ mr.tmpCreated /\ mr.found) =>
              /\ mr'.linesRead = mr.linesRead
              /\ mr'.lineNum <= mr.lineNum + 1
              /\ mr'.pos = mr.pos]_vars

\* C31: in save-full mode, when matchReader has returned, on whatever path,
\* the temporary file it created is closed and is no longer in the
\* destination folder under its temporary name.
C31_TempFileGoneOnEveryExit ==
    (mr.pc = "done" /\ mr.tmpCreated) => (~mr.tmpOpen /\ ~mr.tmpExists)

\* the inner entries of the archive WalkArchive's callback has gone through
VisitedInner == walker.inner - 1

\* C32: WalkArchive visits no more than maxArchiveFiles entries of one
\* archive, whatever the extension filter accepts.
C32_VisitsBoundedByCeiling ==
    (opts.Archives /\ walker.pc \in {"inner", "send"}) => VisitedInner <= maxArchiveFiles

\* C33: once the context is cancelled no worker starts to scan a task, the
\* walker visits no further entry, and the only task still pushed is the one
\* of the entry the walker had visited before: its select at the push may
\* take either ready case.
C33_NoNewWorkAfterCancel ==
    [][cancelled =>
           /\ scanning' \subseteq scanning
           /\ opened' \ opened \subseteq { t.path : t \in scanning }
           /\ counters'.found = counters.found
           /\ walker'.pc = "push" => walker.pc = "push"
           /\ Len(fileCh'.buf) > Len(fileCh.buf) => walker.pc = "push"]_vars

\* C33 as stated: once the context is cancelled no worker starts to scan a
\* task and the walker pushes no further task at all.
C33_NoPushAfterCancel ==
    [][cancelled =>
           /\ scanning' \subseteq scanning
           /\ counters'.found = counters.found
           /\ Len(fileCh'.buf) <= Len(fileCh.buf)]_vars

\* after a cancellation the walker has stopped before its last entry, every
\* worker has returned, and a task that was found was never scanned
C33_Witness ==
    /\ cancelled /\ walker.pc = "done" /\ ctl = "returned"
    /\ assigned = {} /\ scanning = {} /\ fileCh.buf = <<>>
    /\ counters.found < Cardinality(Pushed(opts))
    /\ Cardinality(opened) < counters.found

\* C34: in every execution of Scan the task queue is closed at most once: the
\* controller never runs close on a queue that is already closed (which
\* panics).
C34_QueueClosedAtMostOnce == ctl # "panicked"

\* C35: no task is pushed to the task queue after it was closed (such a send
\* panics): the queue is closed only when the walker goroutine has finished
\* with every root and every archive.
C35_NoPushAfterClose ==
    /\ walker.pc # "panicked"
    /\ fileCh.closed => walker.pc = "done"

\* the queue was closed after the walker had pushed a plain file and the
\* entries of an archive
C35_Witness ==
    /\ fileCh.closed /\ walker.pc = "done" /\ ~cancelled
    /\ opts.Archives /\ walker.sent # {}
    /\ counters.found > 2 * Cardinality(walker.sent)

\* C36: once Scan has returned, with nil, with the context's error or with a
\* fail-fast error, onMatch is not invoked again, by no worker and not by
\* the walker.
C36_NoCallbackAfterReturn ==
    [][ctl = "returned" => results' = results]_vars

(***************************************************************************)
(* The scan over roots that overlap: the second root is the first one      *)
(* again, or a folder inside it (as / and an entry of /mnt are), so that   *)
(* WalkDir meets the same paths under both.  One worker, and pool.Invoke   *)
(* may fail.                                                               *)
(***************************************************************************)
OverlapRoots(r) == { <<r, r>>, <<r, SubSeq(r, Len(r), Len(r))>> }
OverlapOptsSet ==
    UNION { { [o EXCEPT !.Roots = rs, !.Threads = 1] : rs \in OverlapRoots(o.Roots[1]) } :
            o \in { x \in OptsSet : Len(x.Roots) = 1 /\ Len(x.Roots[1]) = MaxEntries } }

InitOverlap == opts \in OverlapOptsSet /\ ScanIdle

SpecOverlap == InitOverlap /\ [][NextSubmit]_vars

\* the walker goroutine is scheduled as long as it can take a step
WalkerStep == WalkerRoot \/ WalkerVisit \/ WalkerPush \/ WalkerPushCancelled
SpecOverlapFair == SpecOverlap /\ WF_vars(WalkerStep)

\* C37: after Scan has returned, on whatever path, the walker goroutine
\* eventually terminates (if it was started at all); it is not left blocked
\* for ever at its push.
C37_WalkerTerminatesAfterReturn ==
    (ctl = "returned") ~> (walker.pc \in {"idle", "done"})

\* the paths under the roots a task is made of
TaskPaths(o) == Files(o) \cup Unreadable(o)

\* C38: within one Scan each path is pushed at most once, also when the roots
\* overlap or repeat: the workers receive no more tasks than there are paths,
\* and no file's match is reported twice.
C38_EachPathPushedOnce ==
    /\ counters.processed <= Cardinality(TaskPaths(opts))
    /\ \A i \in Ids : Len(MatchedOf(results[i])) <= 1


(***************************************************************************)
(* The scan of archives under a whitelist or a blacklist: the quick start  *)
(* of the README (--whitelist txt,log --archives), a blacklist of the      *)
(* archive's own extension, and a blacklist of an inner extension.         *)
(***************************************************************************)
FilterLists == { <<<<ExtTxt>>, <<>>>>, <<<<>>, <<ExtZip>>>>, <<<<>>, <<ExtBin>>>> }
FilterOptsSet ==
    { [FailFast |-> FALSE, Threads |-> th, SaveFull |-> FALSE,
       PatternFile |-> TestPatternFile, Roots |-> c, Archives |-> TRUE,
       Whitelist |-> wb[1], Blacklist |-> wb[2],
       whMap |-> toSet(wb[1]), blMap |-> toSet(wb[2])] :
        th \in 1..MaxThreads, c \in ArchiveCorpora, wb \in FilterLists }

InitFilter == opts \in FilterOptsSet /\ ArchiveIdle

SpecFilter == InitFilter /\ [][NextArchive]_vars

\* the first n elements of a set of numbers
FirstOf(S, n) == { k \in S : Cardinality({ j \in S : j < k }) < n }

\* C39: with archive scanning enabled, once the walker is past an archive
\* (that could be opened), every non-directory entry of it whose inner
\* extension passes the filter was made a task, up to the ceiling, whether or
\* not the archive's own extension passes the filter.
C39_InnerFilterOnly ==
    (opts.Archives /\ ArchiveWalked /\ ~cancelled /\ ~TheArchive.openFails) =>
        walker.sent = FirstOf(Qualifying(opts, TheArchive), maxArchiveFiles)

(***************************************************************************)
(* finalSavePath (reader.go 130-143) and the rename of two save-full       *)
(* workers into one destination folder.  opts holds the two sources and    *)
(* the build's separator; dest is the folder: for every path in it, the    *)
(* source whose file is there; scanning holds the workers yet to save.     *)
(***************************************************************************)
SaveFolder == <<"o">>
SaveFilePaths == { <<"a", c, "a">> : c \in {"/", "\\", ":", "_", "a"} }
SaveInnerPaths == { <<>> } \cup { <<"a", c, "a">> : c \in {"/", "_", "a"} }
SaveSources == { [filePath |-> f, innerPath |-> i] : f \in SaveFilePaths, i \in SaveInnerPaths }

\* strings.ReplaceAll(s, c, "_") for every c of cs
ReplaceAll(s, cs) == [i \in 1..Len(s) |-> IF s[i] \in cs THEN "_" ELSE s[i]]

\* reader.go 130-143
finalSavePath(sep, folder, filePath, innerPath) ==
    LET base == ReplaceAll(filePath, {sep, "/", "\\", ":"}) IN
    IF innerPath # <<>>
    THEN Join(sep, Join(sep, folder, base), ReplaceAll(innerPath, {sep, "/", "\\"}))
    ELSE Join(sep, folder, base)

SavePathOf(o, k) ==
    finalSavePath(o.PathSeparator, SaveFolder, o.Sources[k].filePath, o.Sources[k].innerPath)

SaveOptsSet ==
    { [Sources |-> <<s1, s2>>, PathSeparator |-> sep] :
        s1 \in SaveSources, s2 \in SaveSources, sep \in PathSeparators }

InitSave ==
    /\ opts \in { o \in SaveOptsSet : o.Sources[1] # o.Sources[2] }
    /\ scanning = {1, 2}
    /\ dest = {}
    /\ cancelled = FALSE
    /\ ctl = "save"
    /\ ret = ""
    /\ ctlErr = ""
    /\ loaded = [ok |-> FALSE, patterns |-> <<>>, hasInsensitive |-> FALSE]
    /\ fileCh = [buf |-> <<>>, closed |-> FALSE]
    /\ walkErr = [buf |-> <<>>, closed |-> FALSE]
    /\ cur = NoTask
    /\ wg = 2
    /\ walker = [pc |-> "done", root |-> 1, entry |-> 1]
    /\ assigned = {}
    /\ counters = [found |-> 2, processed |-> 2, errorsC |-> 0, matches |-> 0]
    /\ results = NoResults
    /\ opened = {}
    /\ openedLate = {}
    /\ mr = MRIdle
    /\ sink = SinkIdle
    /\ app = AppIdle

\* reader.go 78-97: worker k's matchReader found its match: os.Rename moves
\* its temporary file to the final path, replacing what is there
SaveRename(k) ==
    /\ ctl = "save"
    /\ k \in scanning
    /\ \E p \in { SavePathOf(opts, k) } :
           dest' = { d \in dest : d.path # p } \cup { [path |-> p, from |-> k] }
    /\ scanning' = scanning \ {k}
    /\ wg' = wg - 1
    /\ counters' = [counters EXCEPT !.matches = counters.matches + 1]
    /\ UNCHANGED <<opts, cancelled, ctl, ret, ctlErr, loaded, fileCh, walkErr, cur, walker,
                   assigned, results, opened, openedLate, mr, sink, app>>

NextSave == \E k \in {1, 2} : SaveRename(k)

SpecSave == InitSave /\ [][NextSave]_vars

\* C40: finalSavePath maps distinct sources to distinct destination paths, so
\* the file a save-full worker saved for its source stays in the folder: it
\* is never replaced by the save of a different source.
C40_DistinctSourcesDistinctPaths ==
    /\ scanning = {} => Cardinality(dest) = 2
    /\ \A k \in {1, 2} \ scanning : [path |-> SavePathOf(opts, k), from |-> k] \in dest
=============================================================================
